---- MODULE Spec2Model ----
(***************************************************************************)
(* djsonrest: versioned REST route registry and request dispatch.          *)
(*                                                                         *)
(* The module models src/rest.py (RESTVersion, RESTVersionMatch,           *)
(* RESTRoute, RESTRouteVersion, RESTRouteVersionMethod, RESTRouteDecorator *)
(* and the RESTRouteView dispatch) and src/auth.py.                        *)
(*                                                                         *)
(* The specifications share the variables (SpecHybrid: endpoints behind    *)
(* HybridAuth objects; SpecConcurrent: two requests in flight at once;     *)
(* SpecRegister, SpecRemove, SpecCache, SpecMiddleware, SpecHandled,       *)
(* SpecApp: see their inputs; SpecRules: Consumer.check_rules of the       *)
(* jwt_auth addon):                                                        *)
(*   SpecVersion   RESTVersion.__init__ and RESTVersion.matches applied to *)
(*                 inputs drawn from bounded sets;                         *)
(*   Spec          registration of routes followed by request dispatch     *)
(*                 (version resolution, method lookup, request pipeline);  *)
(*   SpecPipeline  the same actions with one version and every             *)
(*                 authentication / cache / body combination.              *)
(***************************************************************************)
EXTENDS Integers, Sequences, FiniteSets, TLC

VARIABLES
    rest_routes,    \* rest.py:19   path -> RESTRoute (its version_routes dict)
    endpoints,      \* every RESTRouteVersionMethod constructed so far, in order
    hybrids,        \* every HybridAuth object constructed so far, in order
    reg,            \* the latest registration call: its arguments and outcome
    phase,          \* "discovery" while routes register, "serving" afterwards
    req,            \* the request being served (or the idle request)
    vt,             \* SpecVersion only: one RESTVersion under construction/match
    waiting,        \* SpecConcurrent only: the request of the thread that is
                    \* not running (or the idle request)
    rem,            \* SpecRemove only: the latest remove call and its outcome
    cr              \* SpecRules only: one Consumer.check_rules call, its
                    \* consumer, its request and its outcome

vars == <<rest_routes, endpoints, hybrids, reg, phase, req, vt, waiting, rem, cr>>

-----------------------------------------------------------------------------
(* Bounds of the model *)

MaxMajor == 2
MaxMinor == 9
MaxReg == 2
MaxRemove == 1
MaxRules == 2

-----------------------------------------------------------------------------
(* Literals a version can be declared from.                                *)
(* A float literal is held as its value in thousandths (1.5 is 1500), a    *)
(* tuple literal as its two components.                                    *)

FloatLit(k) == [kind |-> "float", a |-> k, b |-> 0]
IntLit(n) == [kind |-> "int", a |-> n, b |-> 0]
TupleLit(ma, mi) == [kind |-> "tuple", a |-> ma, b |-> mi]
StrLit == [kind |-> "str", a |-> 0, b |-> 0]

FloatValues == {0, 125, 500, 990, 1000, 1050, 1100, 1200, 1500, 2000, 2010, 3000, 1234, -1500}

(* IEEE-754 double results of the two products computed by                 *)
(* RESTVersion.__init__ (rest.py:75-78) for each float literal:            *)
(*   t10   = int((number - major) * 10)                                    *)
(*   whole = (round((number - major) * 10) == (number - major) * 10)       *)
(*   t100  = int(((number - major) * 10) * 10)                             *)
(* e.g. 1.2 - 1 is 0.19999999999999996, so t10 = 1, not whole, t100 = 19.  *)
IEEE_products ==
    (0 :> [t10 |-> 0, whole |-> TRUE, t100 |-> 0]) @@
    (125 :> [t10 |-> 1, whole |-> FALSE, t100 |-> 12]) @@
    (500 :> [t10 |-> 5, whole |-> TRUE, t100 |-> 50]) @@
    (990 :> [t10 |-> 9, whole |-> FALSE, t100 |-> 99]) @@
    (1000 :> [t10 |-> 0, whole |-> TRUE, t100 |-> 0]) @@
    (1050 :> [t10 |-> 0, whole |-> FALSE, t100 |-> 5]) @@
    (1100 :> [t10 |-> 1, whole |-> FALSE, t100 |-> 10]) @@
    (1200 :> [t10 |-> 1, whole |-> FALSE, t100 |-> 19]) @@
    (1500 :> [t10 |-> 5, whole |-> TRUE, t100 |-> 50]) @@
    (2000 :> [t10 |-> 0, whole |-> TRUE, t100 |-> 0]) @@
    (2010 :> [t10 |-> 0, whole |-> FALSE, t100 |-> 0]) @@
    (3000 :> [t10 |-> 0, whole |-> TRUE, t100 |-> 0]) @@
    (1234 :> [t10 |-> 2, whole |-> FALSE, t100 |-> 23]) @@
    (-1500 :> [t10 |-> -5, whole |-> TRUE, t100 |-> -50])

\* round(number, 2) on a value in thousandths: the nearest hundredth
round2(k) ==
    IF k >= 0 THEN ((k + 5) \div 10) * 10 ELSE -((((-k) + 5) \div 10) * 10)

\* int(number): truncation toward zero
int(k) == IF k >= 0 THEN k \div 1000 ELSE -((-k) \div 1000)

-----------------------------------------------------------------------------
(* Consumer.check_rules (addons/jwt_auth/models/consumer.py:43-82).         *)
(* An IP address is a number, the network of an 'ip' rule is the set of the *)
(* addresses in it; request.get_host() is taken to be an address and the    *)
(* value of a rule to be a network, so that ipaddress raises nothing.       *)

NoCheck == [pc |-> "off", rules_active |-> FALSE, denied_ips |-> {},
            allowed_ips |-> {}, origins |-> {}, request_ip |-> 0,
            origin |-> "None", result |-> "none", acao |-> "None"]

\* Consumer.rule_types: the types that have a rule
rule_types(consumer) ==
    (IF consumer.denied_ips \cup consumer.allowed_ips # {} THEN {"ip"} ELSE {})
    \cup (IF consumer.origins # {} THEN {"http_access_control_origin"} ELSE {})

\* Consumer.check_rules(request): [result, acao], result "ok" when it returns
\* and the name of the exception when it raises, acao what it leaves in
\* request._rest_jwt_consumer_acao
check_rules(consumer, request_ip, origin) ==
    LET Raise(e) == [result |-> e, acao |-> "None"]
    IN IF ~consumer.rules_active THEN [result |-> "ok", acao |-> "None"]
       ELSE IF /\ "ip" \in rule_types(consumer)
               /\ \E denied_ip \in consumer.denied_ips : request_ip \in denied_ip
       THEN Raise("AuthenticationError")
       ELSE IF /\ "ip" \in rule_types(consumer)
               /\ \E allowed_ip \in consumer.allowed_ips : request_ip \notin allowed_ip
       THEN Raise("AuthenticationError")
       ELSE IF "http_access_control_origin" \in rule_types(consumer)
       THEN IF origin = "None" THEN Raise("AuthenticationError")
            ELSE IF origin \notin consumer.origins THEN Raise("AuthenticationError")
            ELSE [result |-> "ok", acao |-> origin]
       ELSE [result |-> "ok", acao |-> "None"]

-----------------------------------------------------------------------------
(* RESTVersionMatch (rest.py:38-65) *)

MatchPolicies == {"FOLLOWING_MINOR", "EQUAL", "FOLLOWING_MAJOR_MINOR"}

FOLLOWING_MINOR_no_minor_check(version, other) ==
    IF other[1] # version.major THEN FALSE ELSE TRUE

FOLLOWING_MINOR(version, other) ==
    IF other[1] # version.major THEN FALSE
    ELSE IF other[2] < version.minor THEN FALSE
    ELSE TRUE

EQUAL_same_major(version, other) ==
    IF version.major # other[1] THEN FALSE ELSE TRUE

EQUAL(version, other) ==
    IF version.number # other THEN FALSE ELSE TRUE

FOLLOWING_MAJOR_MINOR_same_major_only(version, other) ==
    IF other[1] # version.major THEN FALSE
    ELSE IF other[2] < version.minor THEN FALSE
    ELSE TRUE

FOLLOWING_MAJOR_MINOR(version, other) ==
    IF other[1] < version.major THEN FALSE
    ELSE IF other[1] = version.major /\ other[2] < version.minor THEN FALSE
    ELSE TRUE

-----------------------------------------------------------------------------
(* RESTVersion (rest.py:68-108) *)

NoVersion == [err |-> "none", major |-> 0, minor |-> 0, number |-> <<0, 0>>, match |-> "none"]
InvalidVersion == [NoVersion EXCEPT !.err = "InvalidRouteError"]

\* RESTVersion.__init__
RESTVersion_no_round_check(number, match) ==
    IF number.kind = "float"
    THEN LET major == int(number.a)
             p == IEEE_products[number.a]
             minor == IF p.whole THEN p.t10 ELSE p.t100
         IN [err |-> "none", major |-> major, minor |-> minor,
             number |-> <<major, minor>>, match |-> match]
    ELSE IF number.kind = "tuple"
    THEN [err |-> "none", major |-> number.a, minor |-> number.b,
          number |-> <<number.a, number.b>>, match |-> match]
    ELSE InvalidVersion

RESTVersion(number, match) ==
    IF number.kind = "float"
    THEN IF round2(number.a) # number.a
         THEN InvalidVersion
         ELSE LET major == int(number.a)
                  p == IEEE_products[number.a]
                  minor == IF p.whole THEN p.t10 ELSE p.t100
              IN [err |-> "none", major |-> major, minor |-> minor,
                  number |-> <<major, minor>>, match |-> match]
    ELSE IF number.kind = "tuple"
    THEN [err |-> "none", major |-> number.a, minor |-> number.b,
          number |-> <<number.a, number.b>>, match |-> match]
    ELSE InvalidVersion

\* RESTVersion.matches: self.match(self, other)
matches(version, other) ==
    CASE version.match = "FOLLOWING_MINOR" -> FOLLOWING_MINOR(version, other)
      [] version.match = "EQUAL" -> EQUAL(version, other)
      [] version.match = "FOLLOWING_MAJOR_MINOR" -> FOLLOWING_MAJOR_MINOR(version, other)

\* RESTVersion.__lt__ / __gt__ / __eq__: comparison of the number tuples
TupleLess(a, b) == a[1] < b[1] \/ (a[1] = b[1] /\ a[2] < b[2])
version_lt(v, w) == TupleLess(v.number, w.number)
version_gt(v, w) == TupleLess(w.number, v.number)
version_eq(v, w) == v.number = w.number
\* RESTVersion.__hash__: hash((self.number, self.match))
version_hash(v) == <<v.number, v.match>>

-----------------------------------------------------------------------------
(* The version_routes dict of a RESTRoute (rest.py:309).                   *)
(* A Python dict keeps its entries in insertion order and finds a key by   *)
(* equal hash and __eq__; it is held as a sequence of [key, value].        *)

\* the keys are the same dict key: equal __hash__ and __eq__
SameKey(k1, k2) == version_hash(k1) = version_hash(k2) /\ version_eq(k1, k2)

\* position of key in the dict, 0 when absent (KeyError)
DictFind(d, key) ==
    IF \E i \in 1..Len(d) : SameKey(d[i].key, key)
    THEN CHOOSE i \in 1..Len(d) : SameKey(d[i].key, key)
    ELSE 0

\* d[key] = value: an existing entry keeps its key object and position
DictSet(d, key, value) ==
    LET i == DictFind(d, key)
    IN IF i = 0 THEN Append(d, [key |-> key, value |-> value])
       ELSE [d EXCEPT ![i].value = value]

DictKeys(d) == [i \in 1..Len(d) |-> d[i].key]

\* del d[key] for the entry at position i
DictDelAt(d, i) == [j \in 1..(Len(d) - 1) |-> IF j < i THEN d[j] ELSE d[j + 1]]

-----------------------------------------------------------------------------
(* RESTRouteVersion (rest.py:233-277) *)

HTTP_METHODS == {"GET", "POST", "PUT", "PATCH", "DELETE"}

\* RESTRouteVersion.__init__: the bucket before any method is registered.
\* attrs[m] is the attribute get/post/put/patch/delete of the object:
\* 0 is the class attribute _default_method_handler, n > 0 is endpoint n.
NewRouteVersion(path, version, name) ==
    [path |-> path, version |-> version, name |-> name,
     attrs |-> [m \in HTTP_METHODS |-> 0],
     method_routes |-> [m \in HTTP_METHODS |-> 0],
     get_cache |-> 0]

\* RESTRouteVersion.register_method_route
register_method_route_keep_first(bucket, method_route) ==
    IF bucket.attrs[method_route.method] # 0 THEN bucket
    ELSE [bucket EXCEPT
            !.attrs[method_route.method] = method_route.id,
            !.method_routes[method_route.method] = method_route.id]

register_method_route(bucket, method_route) ==
    [bucket EXCEPT
        !.attrs[method_route.method] = method_route.id,
        !.method_routes[method_route.method] = method_route.id,
        !.get_cache = IF method_route.method = "GET" /\ method_route.cache # 0
                      THEN method_route.cache ELSE @,
        !.name = IF method_route.name # "None" /\ @ = "None"
                 THEN method_route.name ELSE @]

-----------------------------------------------------------------------------
(* RESTRoute (rest.py:297-331) *)

NewRoute(path) == [path |-> path, name |-> "None", version_routes |-> <<>>]

\* RESTRoute.get_route: the registry after the lookup (the route is created
\* and stored by RESTRoute.__init__ on KeyError)
get_route(routes, path) ==
    IF path \in DOMAIN routes THEN routes
    ELSE (path :> NewRoute(path)) @@ routes

\* RESTRoute.get_version_route: the registry after the lookup; on KeyError
\* RESTRouteVersion.__init__ stores the new bucket under version
get_version_route(routes, path, version, name) ==
    IF DictFind(routes[path].version_routes, version) # 0 THEN routes
    ELSE [routes EXCEPT ![path].version_routes =
            DictSet(@, version, NewRouteVersion(path, version, name))]

\* sorted(version_routes, reverse=True): a stable sort that uses __lt__ only;
\* elements that compare equal keep their original order
RECURSIVE InsertDescending(_, _)
InsertDescending(sorted, x) ==
    IF sorted = <<>> THEN <<x>>
    ELSE IF version_lt(Head(sorted), x) THEN <<x>> \o sorted
    ELSE <<Head(sorted)>> \o InsertDescending(Tail(sorted), x)

RECURSIVE SortedReverse(_)
SortedReverse(s) ==
    IF s = <<>> THEN <<>>
    ELSE InsertDescending(SortedReverse(SubSeq(s, 1, Len(s) - 1)), s[Len(s)])

\* RESTRoute.find_matching_version_route: the position of the chosen bucket
\* in version_routes, 0 for app_settings.ROUTE_NOT_FOUND_VIEW
find_matching_version_route_first_match(route, version) ==
    LET version_routes == SelectSeq(DictKeys(route.version_routes),
                                    LAMBDA vers : matches(vers, version))
    IN IF version_routes = <<>> THEN 0
       ELSE DictFind(route.version_routes, version_routes[1])

find_matching_version_route(route, version) ==
    LET version_routes == SortedReverse(SelectSeq(DictKeys(route.version_routes),
                                                  LAMBDA vers : matches(vers, version)))
    IN IF version_routes = <<>> THEN 0
       ELSE DictFind(route.version_routes, version_routes[1])

-----------------------------------------------------------------------------
(* Authentication (auth.py) *)

\* Authentication classes: Public (auth.py:51) and the JWT policies
\* Consumer and User (addons/jwt_auth/auth.py:74,101)
\* The policies of the JWT addon, which decide on the request's token
JWTClasses == {"Consumer", "User"}
\* The Authentication subclasses in use: Public, the JWT policies, and
\* "Custom", a subclass of the project that uses the package, which declares
\* handled_exceptions of its own
AuthClasses == {"Public", "Custom"} \cup JWTClasses

\* <cls>.handled_exceptions: () in Authentication and in every subclass of
\* the package; a subclass may override the class attribute
handled_exceptions_of(cls) == IF cls = "Custom" THEN {"CustomError"} ELSE {}

\* HybridAuth.__init__
NewHybrid(auth_methods, operator) ==
    [auth_methods |-> auth_methods, operator |-> operator,
     auth_used |-> "None", rest_route |-> 0]

\* What a policy class does with the credentials of a request
\* (request.authres[cls]): "ok"; "ok_origin", Consumer only: ok, and
\* check_rules stored the request's Origin in request._rest_jwt_consumer_acao
\* (consumer.py:65-72); "session_expired" and "token_invalid", JWT only:
\* AuthenticationError with that code (jwt_auth/auth.py:64-69); or the name of
\* the exception raised, without code.
auth_outcome_class(outcome) ==
    IF outcome \in {"ok", "ok_origin"} THEN "ok"
    ELSE IF outcome \in {"session_expired", "token_invalid"} THEN "AuthenticationError"
    ELSE outcome

auth_outcome_code(outcome) ==
    IF outcome \in {"session_expired", "token_invalid"} THEN outcome ELSE "None"

\* <cls>(rest_route).authenticate(request): Public returns True, a JWT policy
\* decides on the request's credentials (held per class in request.authres)
authenticate_class(cls, request) ==
    IF cls = "Public" THEN "ok" ELSE auth_outcome_class(request.authres[cls])

\* the code of the exception that <cls>(rest_route).authenticate(request) raises
authenticate_code(cls, request) ==
    IF cls = "Public" THEN "None" ELSE auth_outcome_code(request.authres[cls])

\* HybridAuth.authenticate: the sub-policies called, the outcome and auth_used
RECURSIVE hybrid_or_try_all(_, _, _, _)
hybrid_or_try_all(auth_methods, request, tried, auth_used) ==
    IF auth_methods = <<>>
    THEN [result |-> IF auth_used = "None" THEN "AuthenticationError" ELSE "ok",
          tried |-> tried, auth_used |-> auth_used]
    ELSE LET auth == Head(auth_methods)
             r == authenticate_class(auth, request)
         IN hybrid_or_try_all(Tail(auth_methods), request, Append(tried, auth),
                              IF r = "ok" THEN auth ELSE auth_used)

RECURSIVE hybrid_or_except_all(_, _, _, _)
hybrid_or_except_all(auth_methods, request, tried, auth_used) ==
    IF auth_methods = <<>>
    THEN [result |-> "AuthenticationError", tried |-> tried, auth_used |-> auth_used]
    ELSE LET auth == Head(auth_methods)
             r == authenticate_class(auth, request)
         IN IF r = "ok"
            THEN [result |-> "ok", tried |-> Append(tried, auth), auth_used |-> auth]
            ELSE hybrid_or_except_all(Tail(auth_methods), request,
                                      Append(tried, auth), auth_used)

RECURSIVE hybrid_or(_, _, _, _)
hybrid_or(auth_methods, request, tried, auth_used) ==
    IF auth_methods = <<>>
    THEN [result |-> "AuthenticationError", tried |-> tried, auth_used |-> auth_used]
    ELSE LET auth == Head(auth_methods)
             r == authenticate_class(auth, request)
         IN IF r = "ok"
            THEN [result |-> "ok", tried |-> Append(tried, auth), auth_used |-> auth]
            ELSE IF r = "AuthenticationError"
            THEN hybrid_or(Tail(auth_methods), request, Append(tried, auth), auth_used)
            ELSE [result |-> r, tried |-> Append(tried, auth), auth_used |-> auth_used]

HybridAuth_authenticate_and_as_or(h, request) ==
    hybrid_or(h.auth_methods, request, <<>>, h.auth_used)

HybridAuth_authenticate(h, request) ==
    IF h.operator = "or"
    THEN hybrid_or(h.auth_methods, request, <<>>, h.auth_used)
    ELSE [result |-> "NotImplementedError", tried |-> <<>>, auth_used |-> h.auth_used]

\* HybridAuth.handled_exceptions (auth.py:78-83)
HybridAuth_handled_exceptions(h) ==
    IF h.auth_used = "None" THEN {} ELSE handled_exceptions_of(h.auth_used)

\* HybridAuth.response (auth.py:102-106): the sub-policy whose response() the
\* response passes through, "None" when it is returned as it is
HybridAuth_response_first_method(h) ==
    IF h.auth_methods = <<>> THEN "None" ELSE Head(h.auth_methods)

HybridAuth_response(h) == h.auth_used

\* status_code of the exception classes (exceptions.py:17-34); 0 for an
\* exception that is no DJsonRestError and carries no status
StatusCode_400_for_all(exc) ==
    IF exc \in {"AuthenticationError", "AccessError", "ConfigurationError",
                "EncodingError", "RequestError"}
    THEN 400 ELSE 0

StatusCode(exc) ==
    CASE exc = "AuthenticationError" -> 401
      [] exc = "AccessError" -> 403
      [] exc = "ConfigurationError" -> 500
      [] exc = "EncodingError" -> 400
      [] exc = "RequestError" -> 400
      [] OTHER -> 0

-----------------------------------------------------------------------------
(* RESTRouteDecorator and RESTRouteVersionMethod.__init__ (rest.py:119-162, *)
(* 460-548)                                                                 *)

\* A path literal is the sequence of its parts, "/" being a part of its own:
\* '/test' is <<"/", "test">>, '' is <<>>.
\* RESTRouteDecorator.__init__ (rest.py:533-534)
StripLeadingSlash(path) ==
    IF path # <<>> /\ Head(path) = "/" THEN Tail(path) ELSE path

\* The version argument of a registration: None, a bare literal, or
\* rest.RESTVersion(lit, match) evaluated by the caller
VersionNone == [kind |-> "None", lit |-> StrLit, match |-> "none"]
VersionBare(lit) == [kind |-> "bare", lit |-> lit, match |-> "none"]
VersionObj(lit, match) == [kind |-> "RESTVersion", lit |-> lit, match |-> match]

\* float(version) of an int or float literal
float(lit) == IF lit.kind = "int" THEN FloatLit(lit.a * 1000) ELSE lit

\* rest.py:137-143: the RESTVersion of the registration, or the error
RegistrationVersion_none_is_zero(version) ==
    IF version.kind = "None" THEN RESTVersion(FloatLit(0), "FOLLOWING_MINOR")
    ELSE IF version.kind = "RESTVersion" THEN RESTVersion(version.lit, version.match)
    ELSE RESTVersion(float(version.lit), "FOLLOWING_MINOR")

RegistrationVersion(version) ==
    IF version.kind = "None" THEN InvalidVersion
    ELSE IF version.kind = "RESTVersion" THEN RESTVersion(version.lit, version.match)
    ELSE IF version.lit.kind \in {"float", "int"}
    THEN RESTVersion(float(version.lit), "FOLLOWING_MINOR")
    ELSE InvalidVersion

\* remove (rest.py:615-635)
NoRemove == [n |-> 0, path |-> <<>>, version |-> VersionNone, method |-> "None",
             error |-> "none"]

\* Python truth value of the version argument of remove: None and 0.0 (or 0)
\* are false, a RESTVersion object (no __bool__, no __len__) is true
version_truth(version) ==
    CASE version.kind = "None" -> FALSE
      [] version.kind = "RESTVersion" -> TRUE
      [] OTHER -> IF version.lit.kind \in {"float", "int"}
                  THEN version.lit.a # 0
                  ELSE TRUE

\* the key the method branch looks up (rest.py:626): the argument as given.
\* A RESTVersion object is a key; a bare number hashes unlike every
\* RESTVersion and is never found
remove_method_key(version) ==
    IF version.kind = "RESTVersion" THEN RESTVersion(version.lit, version.match)
    ELSE InvalidVersion

\* the key the version branch deletes (rest.py:629-631)
remove_version_key(version) ==
    IF version.kind = "RESTVersion" THEN RESTVersion(version.lit, version.match)
    ELSE IF version.lit.kind = "float"
    THEN RESTVersion(version.lit, "FOLLOWING_MINOR")
    ELSE InvalidVersion

\* RESTApp.route (rest.py:383-386): the version argument that reaches the
\* RESTRouteDecorator, app_version being the version of the RESTApp
RESTApp_route(app_version, version) ==
    IF ~version_truth(version) THEN app_version ELSE version

\* The state after remove(path, version, method): [error, routes]
remove(routes, pathlit, version, method) ==
    LET path == StripLeadingSlash(pathlit)
        Failed(e) == [error |-> e, routes |-> routes]
    IN IF method # "None" /\ version_truth(version)
       THEN IF method \notin HTTP_METHODS THEN Failed("AssertionError")
            ELSE IF path \notin DOMAIN routes THEN Failed("KeyError")
            ELSE LET key == remove_method_key(version)
                     i == IF key.err # "none" THEN 0
                          ELSE DictFind(routes[path].version_routes, key)
                 IN IF version.kind = "RESTVersion" /\ key.err # "none"
                    THEN Failed(key.err)
                    ELSE IF i = 0 THEN Failed("KeyError")
                    ELSE [error |-> "none",
                          routes |-> [routes EXCEPT
                              ![path].version_routes[i].value.attrs[method] = 0]]
       ELSE IF version_truth(version)
       THEN LET key == remove_version_key(version)
            IN IF key.err # "none" THEN Failed(key.err)
               ELSE IF path \notin DOMAIN routes THEN Failed("KeyError")
               ELSE LET i == DictFind(routes[path].version_routes, key)
                    IN IF i = 0 THEN Failed("KeyError")
                       ELSE [error |-> "none",
                             routes |-> [routes EXCEPT
                                 ![path].version_routes = DictDelAt(@, i)]]
       ELSE IF path \notin DOMAIN routes THEN Failed("KeyError")
       ELSE [error |-> "none",
             routes |-> [q \in DOMAIN routes \ {path} |-> routes[q]]]

\* rest.py:111-113 and 154-157: the handled_exceptions of a new endpoint, the
\* class attribute (Error,) extended in a new tuple of the instance
route_handled_exceptions_with_auth(handled_exceptions, auth_handled_exceptions) ==
    {"Error"} \cup handled_exceptions \cup auth_handled_exceptions

route_handled_exceptions(handled_exceptions, auth_handled_exceptions) ==
    {"Error"} \cup (IF handled_exceptions = {} THEN auth_handled_exceptions
                    ELSE handled_exceptions)

NoReg == [n |-> 0, path |-> <<>>, version |-> VersionNone, method |-> "GET",
          name |-> "None", error |-> "none", id |-> 0,
          app |-> FALSE, app_version |-> VersionNone]

\* The state after route(path, version, method, auth, cache, name)(fn):
\* [error, routes, endpoints, hybrids]
\* auth is [cls, ref, methods, operator]: a class, a new HybridAuth, or the
\* HybridAuth object number ref built for an earlier registration
\* handled_exceptions is the tuple given to route(), {} for the default ()
RegisterRoute(routes, eps, hybs, pathlit, version, method, auth, cache, name, handled_exceptions) ==
    LET path == StripLeadingSlash(pathlit)
        v == RegistrationVersion(version)
        id == Len(eps) + 1
        fail == [error |-> "InvalidRouteError", routes |-> routes,
                 endpoints |-> eps, hybrids |-> hybs, id |-> 0]
    IN IF version.kind = "RESTVersion" /\ v.err # "none" THEN fail
       ELSE IF path = <<>> /\ name # "default" THEN fail
       ELSE IF method \notin HTTP_METHODS THEN fail
       ELSE IF v.err # "none" THEN fail
       ELSE
       LET href == IF auth.cls # "HybridAuth" THEN 0
                   ELSE IF auth.ref = 0 THEN Len(hybs) + 1 ELSE auth.ref
           hybs1 == IF auth.cls = "HybridAuth" /\ auth.ref = 0
                    THEN Append(hybs, NewHybrid(auth.methods, auth.operator))
                    ELSE hybs
           \* self.auth = auth(self): HybridAuth.__call__ stores the endpoint
           hybs2 == IF href = 0 THEN hybs1
                    ELSE [hybs1 EXCEPT ![href].rest_route = id]
           method_route ==
               [id |-> id, path |-> path, version |-> v, method |-> method,
                auth |-> [cls |-> auth.cls, ref |-> href],
                response_status |-> 200,
                cache |-> IF cache THEN id ELSE 0,
                rest_dec_cache |-> IF cache THEN id ELSE 0,
                name |-> name,
                rest_dec_handled_exceptions |-> handled_exceptions,
                handled_exceptions |->
                    route_handled_exceptions(handled_exceptions,
                        IF href = 0 THEN handled_exceptions_of(auth.cls)
                        ELSE HybridAuth_handled_exceptions(hybs2[href]))]
           r1 == get_route(routes, path)
           r2 == get_version_route(r1, path, v, name)
           i == DictFind(r2[path].version_routes, v)
           r3 == [r2 EXCEPT ![path].version_routes[i].value =
                     register_method_route(@, method_route)]
       IN [error |-> "none", routes |-> r3, endpoints |-> Append(eps, method_route),
           hybrids |-> hybs2, id |-> id]

-----------------------------------------------------------------------------
(* A request and its trace *)

NoOutcome == [kind |-> "pending", exc |-> "none", status |-> 0]
Raised(exc) == [kind |-> "raised", exc |-> exc, status |-> StatusCode(exc)]
Response(status) == [kind |-> "response", exc |-> "none", status |-> status]
\* a view that returns None instead of a response
ReturnedNone == [kind |-> "returned_none", exc |-> "none", status |-> 0]
\* the response of app_settings.ROUTE_NOT_FOUND_VIEW
RouteNotFound == [kind |-> "route_not_found", exc |-> "none", status |-> 404]

Event(ev, ep) == [ev |-> ev, ep |-> ep]
\* A value that a route function returns or that a JsonResponse carries:
\* base value of the given kind (a dict has the given top-level keys) inside
\* wraps dicts of the form {'data': ...}
JSONValue(kind, keys) == [kind |-> kind, keys |-> keys, wraps |-> 0]
\* route_result = None before the route function is called
NoValue == [kind |-> "unset", keys |-> {}, wraps |-> 0]
\* no JsonResponse body yet
NoBody == NoValue
\* what the call of the route function does
Returned(value) == [raises |-> "none", value |-> value]
Raises(exc) == [raises |-> exc, value |-> NoValue]

\* An HTTP response: its status, what it is ("json" a JsonResponse of a
\* route, "json_error" the JSON error response of error_respond_json with the
\* exception and its code, "http" another response of a view, "django_error"
\* the response Django makes of an exception no middleware handled) and its
\* Access-Control headers ("None": not set)
NoResponse ==
    [status |-> 0, kind |-> "none", error |-> "None", code |-> "None",
     acao |-> "None", allow_headers |-> "None", allow_credentials |-> "None"]

AllFail == [c \in AuthClasses \ {"Public"} |-> "AuthenticationError"]

IdleRequest ==
    [pc |-> "IDLE", path |-> <<>>, method |-> "GET", version |-> <<0, 0>>,
     body |-> "empty", authres |-> AllFail,
     rest_version |-> 0, endpoint |-> 0,
     auth_result |-> "none", tried |-> <<>>, auth_used_before |-> "None",
     error_code |-> "None", rest_jwt_consumer_acao |-> "None",
     trace |-> <<>>,
     JSON |-> "unset", cache_response |-> "None", route_result |-> NoValue,
     body_out |-> NoBody, postprocessed_by |-> "None",
     outcome |-> NoOutcome, response |-> NoResponse]

VERBS == HTTP_METHODS \cup {"HEAD", "OPTIONS"}

-----------------------------------------------------------------------------
(* The middleware (middleware.py) *)

\* the exception classes of exceptions.py, subclasses of djutils' Error
DJsonRestErrors ==
    {"AuthenticationError", "AccessError", "ConfigurationError", "EncodingError",
     "RequestError"}

\* isinstance(error, classes) for a tuple of exception classes
isinstance(error, classes) ==
    \/ error \in classes
    \/ ("Error" \in classes /\ error \in DJsonRestErrors)

\* djutils.http.error_respond_json(error, status_code): the JSON error
\* response; its status is the status_code of the error when it has one and
\* the status_code argument otherwise
error_respond_json(error, code, status_code) ==
    [NoResponse EXCEPT
        !.status = IF StatusCode(error) # 0 THEN StatusCode(error) ELSE status_code,
        !.kind = "json_error", !.error = error, !.code = code]

\* the exceptions of django.core.exceptions that process_exception names
DjangoExceptions ==
    {"ObjectDoesNotExist", "FieldDoesNotExist", "ValidationError",
     "SuspiciousOperation"}

\* RESTRoutesMiddleware.process_exception (middleware.py:16-43): the response
\* for the exception error (with code) of a view; NoResponse when it returns
\* None. has_rest_request: request.rest_request is set, and
\* handled_exceptions is that of the endpoint it names.
\* middleware.py:22,25,33 call self._exception_to_manageable_error, which
\* RESTRoutesMiddleware does not define (it is a classmethod of
\* RESTRouteVersionMethod, rest.py:115-117): AttributeError is raised inside
\* the try block.
process_exception_unhandled_escape(has_rest_request, handled_exceptions, error, code) ==
    IF ~has_rest_request THEN NoResponse
    ELSE LET raised == IF error \in DjangoExceptions THEN "AttributeError" ELSE error
             raised_code == IF error \in DjangoExceptions THEN "None" ELSE code
         IN IF isinstance(raised, handled_exceptions)
            THEN error_respond_json(raised, raised_code, 400)
            ELSE NoResponse

process_exception(has_rest_request, handled_exceptions, error, code) ==
    IF ~has_rest_request THEN NoResponse
    ELSE LET raised == IF error \in DjangoExceptions THEN "AttributeError" ELSE error
             raised_code == IF error \in DjangoExceptions THEN "None" ELSE code
         IN IF isinstance(raised, handled_exceptions)
            THEN error_respond_json(raised, raised_code, 400)
            ELSE error_respond_json(raised, raised_code, 500)

\* what Django answers when no middleware made a response of an exception,
\* or when the view returned None
django_error_response ==
    [NoResponse EXCEPT !.status = 500, !.kind = "django_error"]

\* RESTRoutesAccessControlMiddleware.__call__ (middleware.py:50-55)
RESTRoutesAccessControlMiddleware_always_star(response) ==
    [response EXCEPT
        !.acao = "*",
        !.allow_headers = "Content-Type, Authorization",
        !.allow_credentials = "true"]

RESTRoutesAccessControlMiddleware(response) ==
    [response EXCEPT
        !.acao = IF @ = "None" THEN "*" ELSE @,
        !.allow_headers = "Content-Type, Authorization",
        !.allow_credentials = "true"]

\* <policy>.response(request, response): Consumer.response
\* (jwt_auth/auth.py:91-98) sets Access-Control-Allow-Origin when the request
\* has _rest_jwt_consumer_acao; Authentication.response returns the response
policy_response(cls, request, response) ==
    IF cls = "Consumer" /\ request.rest_jwt_consumer_acao # "None"
    THEN [response EXCEPT !.acao = request.rest_jwt_consumer_acao]
    ELSE response

-----------------------------------------------------------------------------
(* RESTRouteView dispatch (rest.py:280-294, 333-346) *)

\* app_settings.ROUTE_NOT_FOUND_VIEW is the view that urls (rest.py:608) also
\* mounts as the catch-all URL: a view callable, which has no attribute named
\* after an HTTP verb
not_found_view_hasattr(method) == FALSE

\* getattr(super(self.__class__, self), method): django.views.generic.View
\* defines options and no other verb
view_super_hasattr(method) == method = "OPTIONS"

\* rest_version_route: what the view does for the bucket at position idx of
\* the route's version_routes (0: ROUTE_NOT_FOUND_VIEW) and the verb.
\* [kind |-> "endpoint", ep] the call of a registered RESTRouteVersionMethod,
\* [kind |-> "head", ep] RESTRouteVersion.head with get_cache ep,
\* [kind |-> "outcome", outcome] a response or an exception without endpoint
rest_version_route_fallback_get(route, idx, method) ==
    IF idx = 0
    THEN [kind |-> "outcome", ep |-> 0, outcome |-> Raised("AttributeError")]
    ELSE LET version_route == route.version_routes[idx].value
             m == IF method \in HTTP_METHODS /\ version_route.attrs[method] # 0
                  THEN method ELSE "GET"
         IN IF version_route.attrs[m] = 0
            THEN [kind |-> "outcome", ep |-> 0, outcome |-> Response(405)]
            ELSE [kind |-> "endpoint", ep |-> version_route.attrs[m],
                  outcome |-> NoOutcome]

rest_version_route(route, idx, method) ==
    IF idx = 0
    THEN IF not_found_view_hasattr(method)
         THEN [kind |-> "outcome", ep |-> 0, outcome |-> RouteNotFound]
         ELSE IF view_super_hasattr(method)
         THEN [kind |-> "outcome", ep |-> 0, outcome |-> Response(200)]
         ELSE [kind |-> "outcome", ep |-> 0, outcome |-> Raised("AttributeError")]
    ELSE LET version_route == route.version_routes[idx].value
         IN IF method \in HTTP_METHODS
            THEN IF version_route.attrs[method] = 0
                 THEN \* _default_method_handler
                      [kind |-> "outcome", ep |-> 0, outcome |-> Response(405)]
                 ELSE [kind |-> "endpoint", ep |-> version_route.attrs[method],
                       outcome |-> NoOutcome]
            ELSE IF method = "HEAD"
            THEN IF version_route.get_cache = 0
                 THEN [kind |-> "outcome", ep |-> 0, outcome |-> ReturnedNone]
                 ELSE [kind |-> "head", ep |-> version_route.get_cache,
                       outcome |-> NoOutcome]
            ELSE \* options: no such attribute on RESTRouteVersion
                 IF view_super_hasattr(method)
                 THEN [kind |-> "outcome", ep |-> 0, outcome |-> Response(200)]
                 ELSE [kind |-> "outcome", ep |-> 0, outcome |-> Raised("AttributeError")]

-----------------------------------------------------------------------------
(* RESTRouteVersionMethod.__call__ (rest.py:164-225) *)

\* rest.py:178: an exception of authenticate ends the call
after_authenticate_ignore_failure(result) == "DECODING"

after_authenticate(result) == IF result = "ok" THEN "DECODING" ELSE "DONE"

\* json.loads(request.body): the body is bytes; bytes that are no UTF-8 raise
\* UnicodeDecodeError, text that is no JSON raises json.JSONDecodeError
json_loads(body) ==
    CASE body = "json" -> "ok"
      [] body = "malformed_json" -> "JSONDecodeError"
      [] body = "invalid_utf8" -> "UnicodeDecodeError"

\* rest.py:180-188: the outcome of the body stage: "ok", or the exception
decode_body_get_allows_body(method, body) ==
    IF method # "GET" /\ body # "empty"
    THEN LET r == json_loads(body)
         IN IF r = "ok" THEN "ok"
            ELSE IF r = "JSONDecodeError" THEN "EncodingError"
            ELSE r
    ELSE "ok"

decode_body(method, body) ==
    IF method # "GET"
    THEN IF body = "empty" THEN "ok"
         ELSE LET r == json_loads(body)
              IN IF r = "ok" THEN "ok"
                 ELSE IF r = "JSONDecodeError" THEN "EncodingError"
                 ELSE r
    ELSE IF body # "empty" THEN "RequestError"
    ELSE "ok"

\* What a cache validator returns: None, a response that carries an ETag or
\* Last-Modified header for the current state of the resource ("ETag"), or a
\* 304 response saying that the resource the request names is unchanged
\* ("NotModified"). rest.py:214-223 reads the two headers of any of them.
cache_response_status(cache_response) ==
    IF cache_response = "NotModified" THEN 304 ELSE 200

\* rest.py:209: isinstance(route_result, dict) and 'data' in route_result
is_dict_with_data(route_result) ==
    \/ route_result.wraps > 0
    \/ (route_result.kind = "dict" /\ "data" \in route_result.keys)

\* rest.py:209-210: the body of the JsonResponse
wrap_data_always(route_result) ==
    [route_result EXCEPT !.wraps = @ + 1]

wrap_data(route_result) ==
    IF ~is_dict_with_data(route_result)
    THEN [route_result EXCEPT !.wraps = @ + 1]
    ELSE route_result

-----------------------------------------------------------------------------
(* SpecVersion: construction and matching of one RESTVersion *)

VersionLiterals ==
    {FloatLit(k) : k \in FloatValues}
    \cup {TupleLit(ma, mi) : ma \in 0..MaxMajor, mi \in (0..MaxMinor) \cup {99, 100}}
    \cup {IntLit(1), StrLit}

RequestedVersions == (0..MaxMajor) \X (0..MaxMinor)

IdleVt == [pc |-> "off", number |-> StrLit, match |-> "none", other |-> <<0, 0>>,
           version |-> NoVersion, result |-> FALSE]

InitVersion ==
    /\ rest_routes = <<>>
    /\ endpoints = <<>>
    /\ hybrids = <<>>
    /\ reg = NoReg
    /\ phase = "discovery"
    /\ req = IdleRequest
    /\ waiting = IdleRequest
    /\ rem = NoRemove
    /\ cr = NoCheck
    /\ cr = NoCheck
    /\ \E number \in VersionLiterals, match \in MatchPolicies, other \in RequestedVersions :
          vt = [pc |-> "literal", number |-> number, match |-> match, other |-> other,
                version |-> NoVersion, result |-> FALSE]

\* RESTVersion(number, match) is evaluated
Construct ==
    /\ vt.pc = "literal"
    /\ LET v == RESTVersion(vt.number, vt.match)
       IN vt' = [vt EXCEPT !.version = v,
                           !.pc = IF v.err = "none" THEN "constructed" ELSE "rejected"]
    /\ UNCHANGED <<rest_routes, endpoints, hybrids, reg, phase, req, waiting, rem, cr>>

\* version.matches(other) is evaluated
Match ==
    /\ vt.pc = "constructed"
    /\ vt' = [vt EXCEPT !.result = matches(vt.version, vt.other), !.pc = "matched"]
    /\ UNCHANGED <<rest_routes, endpoints, hybrids, reg, phase, req, waiting, rem, cr>>

NextVersion == Construct \/ Match

SpecVersion == InitVersion /\ [][NextVersion]_vars

-----------------------------------------------------------------------------
(* Actions *)

\* @rest.route(path, version, method, auth, cache, name) on a function,
\* during the discovery of the rest_routes modules
Register(pathlits, versions, methods, auths, caches, names, handled) ==
    /\ phase = "discovery"
    /\ reg.n < MaxReg
    /\ \E pathlit \in pathlits, version \in versions, method \in methods,
          auth \in auths, cache \in caches, name \in names,
          handled_exceptions \in handled :
          /\ auth.ref <= Len(hybrids)
          /\ LET r == RegisterRoute(rest_routes, endpoints, hybrids, pathlit,
                                    version, method, auth, cache, name,
                                    handled_exceptions)
             IN /\ rest_routes' = r.routes
                /\ endpoints' = r.endpoints
                /\ hybrids' = r.hybrids
                /\ reg' = [n |-> reg.n + 1, path |-> pathlit, version |-> version,
                           method |-> method, name |-> name, error |-> r.error,
                           id |-> r.id, app |-> FALSE, app_version |-> VersionNone]
    /\ UNCHANGED <<phase, req, vt, waiting, rem, cr>>

\* @app.get / post / ... (path, version=version) on a function, app being
\* RESTApp(version=app_version, auth=app_auth): RESTApp.route chooses the
\* version and the auth (the route gives none), the RESTRouteDecorator
\* registers the route
RESTApp_Register(app_versions, app_auths, pathlits, versions, methods) ==
    /\ phase = "discovery"
    /\ reg.n < MaxReg
    /\ \E app_version \in app_versions, app_auth \in app_auths,
          pathlit \in pathlits, version \in versions, method \in methods :
          LET r == RegisterRoute(rest_routes, endpoints, hybrids, pathlit,
                                 RESTApp_route(app_version, version), method,
                                 app_auth, FALSE, "None", {})
          IN /\ rest_routes' = r.routes
             /\ endpoints' = r.endpoints
             /\ hybrids' = r.hybrids
             /\ reg' = [n |-> reg.n + 1, path |-> pathlit, version |-> version,
                        method |-> method, name |-> "None", error |-> r.error,
                        id |-> r.id, app |-> TRUE, app_version |-> app_version]
    /\ UNCHANGED <<phase, req, vt, waiting, rem, cr>>

\* @<route function>.cache on a function (rest.py:500-505), during the
\* discovery: the cache function of a registered GET route is set on its
\* decorator; the endpoint and its bucket are not touched
Wrapper_cache ==
    /\ phase = "discovery"
    /\ \E i \in 1..Len(endpoints) :
          /\ endpoints[i].method = "GET"
          /\ endpoints[i].rest_dec_cache # i
          /\ endpoints' = [endpoints EXCEPT ![i].rest_dec_cache = i]
    /\ UNCHANGED <<rest_routes, hybrids, reg, phase, req, vt, waiting, rem, cr>>

\* rest.remove(path, version, method), during the discovery
Remove(pathlits, versions, methods) ==
    /\ phase = "discovery"
    /\ rem.n < MaxRemove
    /\ \E pathlit \in pathlits, version \in versions, method \in methods :
          LET r == remove(rest_routes, pathlit, version, method)
          IN /\ rest_routes' = r.routes
             /\ rem' = [n |-> rem.n + 1, path |-> pathlit, version |-> version,
                        method |-> method, error |-> r.error]
    /\ UNCHANGED <<endpoints, hybrids, reg, phase, req, vt, waiting, cr>>

\* RESTRoutes.urls (rest.py:602-612): the URL patterns are built from the
\* registry and requests are served from then on
urls ==
    /\ phase = "discovery"
    /\ phase' = "serving"
    /\ UNCHANGED <<rest_routes, endpoints, hybrids, reg, req, vt, waiting, rem, cr>>

\* a request arrives for the URL of a registered path
StartRequest(verbs, versions, bodies, authresults) ==
    /\ phase = "serving"
    /\ req.pc = "IDLE"
    /\ \E path \in DOMAIN rest_routes, method \in verbs, version \in versions,
          body \in bodies, authres \in authresults :
          req' = [IdleRequest EXCEPT !.pc = "RESOLVING", !.path = path,
                                     !.method = method, !.version = version,
                                     !.body = body, !.authres = authres]
    /\ UNCHANGED <<rest_routes, endpoints, hybrids, reg, phase, vt, waiting, rem, cr>>

\* RESTRouteView.<verb>: rest_version_route up to the call it makes
Dispatch(cacheresults) ==
    /\ req.pc = "RESOLVING"
    /\ LET route == rest_routes[req.path]
           idx == find_matching_version_route(route, req.version)
           d == rest_version_route(route, idx, req.method)
       IN \/ /\ d.kind = "endpoint"
             /\ req' = [req EXCEPT !.rest_version = idx, !.endpoint = d.ep,
                                   !.pc = "AUTHENTICATING"]
          \/ /\ d.kind = "outcome"
             /\ req' = [req EXCEPT !.rest_version = idx, !.outcome = d.outcome,
                                   !.pc = "DONE"]
          \/ /\ d.kind = "head"
             \* RESTRouteVersion.head: return self.get_cache(request)
             /\ \E c \in cacheresults :
                  req' = [req EXCEPT !.rest_version = idx,
                                     !.trace = Append(@, Event("cache", d.ep)),
                                     !.cache_response = c,
                                     !.outcome = IF c = "None" THEN ReturnedNone
                                                 ELSE Response(cache_response_status(c)),
                                     !.pc = "DONE"]
    /\ UNCHANGED <<rest_routes, endpoints, hybrids, reg, phase, vt, waiting, rem, cr>>

\* rest.py:175-178: self.auth.authenticate(request)
Authenticate ==
    /\ req.pc = "AUTHENTICATING"
    /\ LET e == endpoints[req.endpoint]
           h == IF e.auth.cls = "HybridAuth"
                THEN HybridAuth_authenticate(hybrids[e.auth.ref], req)
                ELSE [result |-> authenticate_class(e.auth.cls, req),
                      tried |-> <<e.auth.cls>>, auth_used |-> "None"]
           pc == after_authenticate(h.result)
       IN /\ req' = [req EXCEPT
                        !.trace = Append(@, Event("authenticate", e.id)),
                        !.auth_result = h.result,
                        \* the code of the exception that leaves authenticate:
                        \* a policy class raises its own, HybridAuth raises a
                        \* new AuthenticationError (auth.py:100) or passes on
                        \* the exception of the sub-policy called last
                        !.error_code =
                            IF h.result = "ok" THEN "None"
                            ELSE IF e.auth.cls # "HybridAuth"
                            THEN authenticate_code(e.auth.cls, req)
                            ELSE IF h.result = "AuthenticationError" \/ h.tried = <<>>
                            THEN "None"
                            ELSE authenticate_code(h.tried[Len(h.tried)], req),
                        \* consumer.py:72, in Consumer.authenticate
                        !.rest_jwt_consumer_acao =
                            IF /\ h.result = "ok"
                               /\ h.tried[Len(h.tried)] = "Consumer"
                               /\ req.authres["Consumer"] = "ok_origin"
                            THEN "Origin" ELSE "None",
                        !.tried = h.tried,
                        \* what earlier requests left in self.auth.auth_used
                        !.auth_used_before =
                            IF e.auth.cls = "HybridAuth"
                            THEN hybrids[e.auth.ref].auth_used ELSE "None",
                        !.outcome = IF pc = "DONE" THEN Raised(h.result) ELSE @,
                        !.pc = pc]
          /\ hybrids' = IF e.auth.cls = "HybridAuth"
                        THEN [hybrids EXCEPT ![e.auth.ref].auth_used = h.auth_used]
                        ELSE hybrids
    /\ UNCHANGED <<rest_routes, endpoints, reg, phase, vt, waiting, rem, cr>>

\* rest.py:180-188: the request body
DecodeBody ==
    /\ req.pc = "DECODING"
    /\ LET e == endpoints[req.endpoint]
           r == decode_body(req.method, req.body)
       IN req' = [req EXCEPT
                     !.trace = Append(@, Event("decode", e.id)),
                     !.JSON = IF req.method # "GET" /\ r = "ok"
                              THEN (IF req.body = "empty" THEN "{}" ELSE "parsed")
                              ELSE @,
                     !.outcome = IF r = "ok" THEN @ ELSE Raised(r),
                     !.pc = IF r # "ok" THEN "DONE"
                            ELSE IF req.method = "GET" THEN "VALIDATING"
                            ELSE "HANDLING"]
    /\ UNCHANGED <<rest_routes, endpoints, hybrids, reg, phase, vt, waiting, rem, cr>>

\* rest.py:189-200: a GET without body; the cache validator, when there is one
CacheValidate(cacheresults) ==
    /\ req.pc = "VALIDATING"
    /\ LET e == endpoints[req.endpoint]
           cache == IF e.cache = 0 /\ e.rest_dec_cache # 0
                    THEN e.rest_dec_cache ELSE e.cache
       IN /\ endpoints' = [endpoints EXCEPT ![e.id].cache = cache]
          /\ IF cache = 0
             THEN req' = [req EXCEPT !.pc = "HANDLING"]
             ELSE \E c \in cacheresults :
                     req' = [req EXCEPT
                                !.trace = Append(@, Event("cache", cache)),
                                !.cache_response = c,
                                !.pc = "HANDLING"]
    /\ UNCHANGED <<rest_routes, hybrids, reg, phase, vt, waiting, rem, cr>>

\* rest.py:202-207: the route function is called
Handle(handlerresults) ==
    /\ req.pc = "HANDLING"
    /\ LET e == endpoints[req.endpoint]
       IN \E result \in handlerresults :
             req' = [req EXCEPT
                        !.trace = Append(@, Event("handler", e.id)),
                        !.route_result = result.value,
                        !.outcome = IF result.raises = "none"
                                    THEN @ ELSE Raised(result.raises),
                        !.pc = IF result.raises = "none"
                               THEN "ENCODING" ELSE "DONE"]
    /\ UNCHANGED <<rest_routes, endpoints, hybrids, reg, phase, vt, waiting, rem, cr>>

\* rest.py:209-225: the JsonResponse and self.auth.response(request, response)
Respond ==
    /\ req.pc = "ENCODING"
    /\ LET e == endpoints[req.endpoint]
           by == IF e.auth.cls = "HybridAuth"
                 THEN HybridAuth_response(hybrids[e.auth.ref])
                 ELSE e.auth.cls
       IN req' = [req EXCEPT
                     !.trace = Append(@, Event("postprocess", e.id)),
                     !.body_out = wrap_data(req.route_result),
                     !.postprocessed_by = by,
                     !.outcome = Response(e.response_status),
                     !.response =
                        policy_response(by, req,
                            [NoResponse EXCEPT !.status = e.response_status,
                                               !.kind = "json"]),
                     !.pc = "DONE"]
    /\ UNCHANGED <<rest_routes, endpoints, hybrids, reg, phase, vt, waiting, rem, cr>>

\* The exception of the view (or its returning None) in Django's handler:
\* process_exception of RESTRoutesMiddleware, then Django's own response
ProcessException ==
    /\ req.pc = "DONE"
    /\ req.outcome.kind \in {"raised", "returned_none"}
    /\ LET r == IF req.outcome.kind = "returned_none" THEN NoResponse
                ELSE process_exception(
                        req.endpoint # 0,
                        IF req.endpoint # 0
                        THEN endpoints[req.endpoint].handled_exceptions ELSE {},
                        req.outcome.exc, req.error_code)
       IN req' = [req EXCEPT
                     !.response = IF r = NoResponse THEN django_error_response ELSE r,
                     !.pc = "RESPONSE"]
    /\ UNCHANGED <<rest_routes, endpoints, hybrids, reg, phase, vt, waiting, rem, cr>>

\* The response on its way out through RESTRoutesAccessControlMiddleware
AccessControl ==
    /\ \/ req.pc = "RESPONSE"
       \/ (req.pc = "DONE" /\ req.outcome.kind \in {"response", "route_not_found"})
    /\ LET response == IF req.response # NoResponse THEN req.response
                       ELSE [NoResponse EXCEPT !.status = req.outcome.status,
                                               !.kind = "http"]
       IN req' = [req EXCEPT
                     !.response = RESTRoutesAccessControlMiddleware(response),
                     !.pc = "SENT"]
    /\ UNCHANGED <<rest_routes, endpoints, hybrids, reg, phase, vt, waiting, rem, cr>>

\* the request is over: at "DONE" when the view has returned or raised, at
\* "SENT" when the response has left the middleware
Finish(at) ==
    /\ req.pc \in at
    /\ req' = IdleRequest
    /\ UNCHANGED <<rest_routes, endpoints, hybrids, reg, phase, vt, waiting, rem, cr>>

-----------------------------------------------------------------------------
(* Spec: routes registered at several versions, then dispatched *)

ClassAuth(cls) == [cls |-> cls, ref |-> 0, methods |-> <<>>, operator |-> "or"]
HybridOf(methods, operator) ==
    [cls |-> "HybridAuth", ref |-> 0, methods |-> methods, operator |-> operator]

RoutePaths == {<<"/", "test">>}
RouteVersions ==
    {VersionBare(FloatLit(1000)), VersionBare(FloatLit(1500)), VersionBare(FloatLit(2000)),
     VersionObj(TupleLit(1, 0), "EQUAL"), VersionObj(TupleLit(1, 5), "EQUAL"),
     VersionObj(TupleLit(1, 0), "FOLLOWING_MAJOR_MINOR"),
     VersionObj(FloatLit(0), "FOLLOWING_MAJOR_MINOR"),
     VersionNone, VersionBare(FloatLit(1234)),
     VersionObj(FloatLit(1234), "FOLLOWING_MINOR")}
RouteMethods == {"GET", "POST", "TRACE"}
RouteRequested == {<<0, 5>>, <<1, 0>>, <<1, 5>>, <<1, 9>>, <<2, 0>>}

Init ==
    /\ rest_routes = <<>>
    /\ endpoints = <<>>
    /\ hybrids = <<>>
    /\ reg = NoReg
    /\ phase = "discovery"
    /\ req = IdleRequest
    /\ vt = IdleVt
    /\ waiting = IdleRequest
    /\ rem = NoRemove
    /\ cr = NoCheck

Next ==
    \/ Register(RoutePaths, RouteVersions, RouteMethods, {ClassAuth("Public")},
                {FALSE}, {"None"}, {{}})
    \/ urls
    \/ StartRequest(VERBS, RouteRequested, {"empty"}, {AllFail})
    \/ Dispatch({"None"})
    \/ Authenticate
    \/ DecodeBody
    \/ CacheValidate({"None"})
    \/ Handle({Returned(JSONValue("list", {}))})
    \/ Respond
    \/ Finish({"DONE"})

Spec == Init /\ [][Next]_vars

-----------------------------------------------------------------------------
(* SpecPipeline: one version, every authentication, cache and body case *)

PipePaths == {<<"/", "auth", "/", "consumer">>}
PipeVersions == {VersionObj(FloatLit(0), "FOLLOWING_MAJOR_MINOR")}
PipeMethods == {"GET", "POST"}
PipeAuths ==
    {ClassAuth("Public"), ClassAuth("Consumer"),
     HybridOf(<<"Consumer", "User">>, "or"), HybridOf(<<"Consumer", "User">>, "and")}
PipeVerbs == {"GET", "POST", "HEAD"}
PipeRequested == {<<1, 0>>}
Bodies == {"empty", "json", "malformed_json", "invalid_utf8"}
\* what the JWT policies say of the request's token; no Custom credentials
AuthResults ==
    {[c \in AuthClasses \ {"Public"} |->
         IF c \in JWTClasses THEN f[c] ELSE "AuthenticationError"] :
       f \in [JWTClasses -> {"ok", "AuthenticationError"}]}
    \cup {[c \in AuthClasses \ {"Public"} |-> "ConfigurationError"]}
CacheResults == {"None", "ETag", "NotModified"}
RouteResults ==
    {JSONValue("None", {}), JSONValue("list", {})}
    \cup {JSONValue("dict", keys) : keys \in SUBSET {"data", "error"}}
HandlerResults == {Returned(v) : v \in RouteResults} \cup {Raises("RequestError")}

NextPipeline ==
    \/ Register(PipePaths, PipeVersions, PipeMethods, PipeAuths, BOOLEAN, {"None"}, {{}})
    \/ urls
    \/ StartRequest(PipeVerbs, PipeRequested, Bodies, AuthResults)
    \/ Dispatch(CacheResults)
    \/ Authenticate
    \/ DecodeBody
    \/ CacheValidate(CacheResults)
    \/ Handle(HandlerResults)
    \/ Respond
    \/ Finish({"DONE"})

SpecPipeline == Init /\ [][NextPipeline]_vars

-----------------------------------------------------------------------------
(* SpecRegister: registrations with every kind of path, method, version and *)
(* name argument, valid or not                                              *)

\* '', '/', 'test', '/test', '//test'
RegPaths == {<<>>, <<"/">>, <<"test">>, <<"/", "test">>, <<"/", "/", "test">>}
RegVersions ==
    {VersionNone, VersionBare(StrLit), VersionBare(TupleLit(1, 0)),
     VersionBare(IntLit(1)), VersionBare(FloatLit(0)), VersionBare(FloatLit(1000)),
     VersionObj(TupleLit(1, 0), "EQUAL")}
RegMethods == {"GET", "POST", "TRACE", "HEAD"}
RegNames == {"None", "default"}

NextRegister ==
    \/ Register(RegPaths, RegVersions, RegMethods, {ClassAuth("Public")}, {FALSE},
                RegNames, {{}})
    \/ urls

SpecRegister == Init /\ [][NextRegister]_vars

-----------------------------------------------------------------------------
(* SpecRemove: routes of two paths and several versions are registered,     *)
(* remove is called, and requests are dispatched on what is left            *)

\* '/test', '/other'
RemovePaths == {<<"/", "test">>, <<"/", "other">>}
RemoveRegVersions ==
    {VersionBare(FloatLit(0)), VersionBare(FloatLit(1000)),
     VersionObj(TupleLit(1, 0), "EQUAL")}
RemoveMethods == {"GET", "POST"}
\* the version argument of remove: None, 0.0, 1.0, RESTVersion(1.0),
\* RESTVersion((1, 0), EQUAL)
RemoveVersions ==
    {VersionNone, VersionBare(FloatLit(0)), VersionBare(FloatLit(1000)),
     VersionObj(FloatLit(1000), "FOLLOWING_MINOR"),
     VersionObj(TupleLit(1, 0), "EQUAL")}
RemoveRequestVersions == {<<0, 0>>, <<1, 0>>}

NextRemove ==
    \/ Register(RemovePaths, RemoveRegVersions, RemoveMethods,
                {ClassAuth("Public")}, {FALSE}, {"None"}, {{}})
    \/ Remove(RemovePaths, RemoveVersions, {"None"} \cup RemoveMethods)
    \/ urls
    \/ StartRequest(RemoveMethods, RemoveRequestVersions, {"empty"}, {AllFail})
    \/ Dispatch({"None"})
    \/ Authenticate
    \/ DecodeBody
    \/ CacheValidate({"None"})
    \/ Handle({Returned(JSONValue("list", {}))})
    \/ Respond
    \/ Finish({"DONE"})

SpecRemove == Init /\ [][NextRemove]_vars

-----------------------------------------------------------------------------
(* SpecCache: GET routes whose cache function is given to route() or set  *)
(* afterwards with @<route function>.cache                                *)

CacheAuths == {ClassAuth("Public"), ClassAuth("Consumer")}
CacheVerbs == {"GET", "HEAD"}
CacheAuthResults ==
    {[c \in AuthClasses \ {"Public"} |->
         IF c = "Consumer" THEN r ELSE "AuthenticationError"] :
       r \in {"ok", "AuthenticationError"}}

NextCache ==
    \/ Register(PipePaths, PipeVersions, PipeMethods, CacheAuths, BOOLEAN, {"None"}, {{}})
    \/ Wrapper_cache
    \/ urls
    \/ StartRequest(CacheVerbs, PipeRequested, {"empty"}, CacheAuthResults)
    \/ Dispatch(CacheResults)
    \/ Authenticate
    \/ DecodeBody
    \/ CacheValidate(CacheResults)
    \/ Handle({Returned(JSONValue("list", {}))})
    \/ Respond
    \/ Finish({"DONE"})

SpecCache == Init /\ [][NextCache]_vars

-----------------------------------------------------------------------------
(* SpecMiddleware: requests followed through the view and the middleware  *)
(* up to the response that leaves RESTRoutesAccessControlMiddleware       *)

MiddlewareAuths ==
    {ClassAuth("Public"), ClassAuth("Consumer"), ClassAuth("User"),
     HybridOf(<<"Consumer", "User">>, "or")}
\* The Authorization header of a request, as the JWT policies see it: none,
\* an expired token, a token with a bad signature, a consumer token (whose
\* consumer has an Origin rule that the request passes, or none), a user
\* token, and any token while no public key is configured
TokenOutcome(consumer, user) ==
    [c \in AuthClasses \ {"Public"} |->
        IF c = "Consumer" THEN consumer
        ELSE IF c = "User" THEN user ELSE "AuthenticationError"]
MiddlewareAuthResults ==
    {TokenOutcome("AuthenticationError", "AuthenticationError"),
     TokenOutcome("session_expired", "session_expired"),
     TokenOutcome("token_invalid", "token_invalid"),
     TokenOutcome("ok", "AuthenticationError"),
     TokenOutcome("ok_origin", "AuthenticationError"),
     TokenOutcome("token_invalid", "ok"),
     TokenOutcome("ConfigurationError", "ConfigurationError")}
MiddlewareBodies == {"empty", "malformed_json"}
\* what a route function does: it returns, or raises an error of the
\* taxonomy, one of the django exceptions, or another exception
MiddlewareHandlerResults ==
    {Returned(JSONValue("list", {}))}
    \cup {Raises(exc) : exc \in {"RequestError", "AccessError", "KeyError"}
                               \cup DjangoExceptions}

NextMiddleware ==
    \/ Register(PipePaths, PipeVersions, PipeMethods, MiddlewareAuths, {FALSE},
                {"None"}, {{}})
    \/ urls
    \/ StartRequest(PipeVerbs, PipeRequested, MiddlewareBodies, MiddlewareAuthResults)
    \/ Dispatch({"None"})
    \/ Authenticate
    \/ DecodeBody
    \/ CacheValidate({"None"})
    \/ Handle(MiddlewareHandlerResults)
    \/ Respond
    \/ ProcessException
    \/ AccessControl
    \/ Finish({"SENT"})

SpecMiddleware == Init /\ [][NextMiddleware]_vars

-----------------------------------------------------------------------------
(* SpecRules: Consumer.check_rules applied to a consumer with up to        *)
(* MaxRules deny rules and MaxRules allow rules, and to a request          *)

RuleAddresses == {1, 2, 3}
\* the networks of the 'ip' rules: two disjoint ones, one that holds both,
\* and one apart
RuleNetworks == {{1}, {2}, {1, 2}, {3}}
RuleSets == {n \in SUBSET RuleNetworks : Cardinality(n) <= MaxRules}
RuleOrigins == {"None", "https://a.example", "https://b.example"}

InitRules ==
    /\ rest_routes = <<>>
    /\ endpoints = <<>>
    /\ hybrids = <<>>
    /\ reg = NoReg
    /\ phase = "discovery"
    /\ req = IdleRequest
    /\ vt = IdleVt
    /\ waiting = IdleRequest
    /\ rem = NoRemove
    /\ \E rules_active \in BOOLEAN, denied_ips \in RuleSets, allowed_ips \in RuleSets,
          origins \in {{}, {"https://a.example"}}, request_ip \in RuleAddresses,
          origin \in RuleOrigins :
          cr = [NoCheck EXCEPT !.pc = "token_found", !.rules_active = rules_active,
                               !.denied_ips = denied_ips, !.allowed_ips = allowed_ips,
                               !.origins = origins, !.request_ip = request_ip,
                               !.origin = origin]

\* jwt_auth/auth.py:87: request.rest_consumer.check_rules(request)
CheckRules ==
    /\ cr.pc = "token_found"
    /\ LET r == check_rules(cr, cr.request_ip, cr.origin)
       IN cr' = [cr EXCEPT !.result = r.result, !.acao = r.acao, !.pc = "checked"]
    /\ UNCHANGED <<rest_routes, endpoints, hybrids, reg, phase, req, vt, waiting, rem>>

\* Consumer.authenticate returns after check_rules, or its exception leaves
AuthenticateReturn ==
    /\ cr.pc = "checked"
    /\ cr' = [cr EXCEPT !.pc = IF cr.result = "ok" THEN "authenticated" ELSE "raised"]
    /\ UNCHANGED <<rest_routes, endpoints, hybrids, reg, phase, req, vt, waiting, rem>>

NextRules == CheckRules \/ AuthenticateReturn

SpecRules == InitRules /\ [][NextRules]_vars

-----------------------------------------------------------------------------
(* SpecApp: routes declared through a RESTApp with or without a default     *)
(* version, the route giving a version or none                              *)

\* RESTApp(), RESTApp(version=1.0), RESTApp(version=2.0)
AppVersions == {VersionNone, VersionBare(FloatLit(1000)), VersionBare(FloatLit(2000))}
\* the version of the route: none, 0, 0.0, 1.0, 1.5, RESTVersion(0.0, EQUAL)
AppRouteVersions ==
    {VersionNone, VersionBare(IntLit(0)), VersionBare(FloatLit(0)),
     VersionBare(FloatLit(1000)), VersionBare(FloatLit(1500)),
     VersionObj(FloatLit(0), "EQUAL")}
AppRequested == {<<0, 0>>, <<1, 0>>, <<1, 5>>, <<2, 0>>}

NextApp ==
    \/ RESTApp_Register(AppVersions, {ClassAuth("Public")}, RoutePaths,
                        AppRouteVersions, PipeMethods)
    \/ urls
    \/ StartRequest(PipeMethods, AppRequested, {"empty"}, {AllFail})
    \/ Dispatch({"None"})
    \/ Authenticate
    \/ DecodeBody
    \/ CacheValidate({"None"})
    \/ Handle({Returned(JSONValue("list", {}))})
    \/ Respond
    \/ Finish({"DONE"})

SpecApp == Init /\ [][NextApp]_vars

-----------------------------------------------------------------------------
(* SpecHandled: routes registered with and without handled_exceptions, behind *)
(* a policy with or without handled_exceptions of its own, and requests whose *)
(* route function raises                                                      *)

HandledAuths == {ClassAuth("Public"), ClassAuth("Custom")}
\* the handled_exceptions argument of route(): (), (KeyError,), (ValueError,)
HandledDeclared == {{}, {"KeyError"}, {"ValueError"}}
HandledAuthResults ==
    {[c \in AuthClasses \ {"Public"} |->
         IF c = "Custom" THEN r ELSE "AuthenticationError"] :
       r \in {"ok", "AuthenticationError"}}
HandledHandlerResults ==
    {Returned(JSONValue("list", {}))}
    \cup {Raises(exc) : exc \in {"KeyError", "ValueError", "CustomError", "RequestError"}}

NextHandled ==
    \/ Register(PipePaths, PipeVersions, PipeMethods, HandledAuths, {FALSE},
                {"None"}, HandledDeclared)
    \/ urls
    \/ StartRequest(PipeMethods, PipeRequested, {"empty"}, HandledAuthResults)
    \/ Dispatch({"None"})
    \/ Authenticate
    \/ DecodeBody
    \/ CacheValidate({"None"})
    \/ Handle(HandledHandlerResults)
    \/ Respond
    \/ ProcessException
    \/ AccessControl
    \/ Finish({"SENT"})

SpecHandled == Init /\ [][NextHandled]_vars

-----------------------------------------------------------------------------
(* SpecHybrid: endpoints protected by HybridAuth objects, one of them passed *)
(* to several registrations                                                  *)

\* the HybridAuth object number ref, passed to route() once more
HybridRef(ref) ==
    [cls |-> "HybridAuth", ref |-> ref, methods |-> <<>>, operator |-> "or"]

HybridAuths ==
    {HybridOf(<<"Custom", "User">>, "or"), HybridOf(<<"User", "Custom">>, "or"),
     HybridOf(<<"Custom", "User">>, "and"), HybridRef(1)}
\* what Custom and User say of the request's credentials; no Consumer token
HybridAuthResults ==
    {[c \in AuthClasses \ {"Public"} |->
         IF c \in {"Custom", "User"} THEN f[c] ELSE "AuthenticationError"] :
       f \in [{"Custom", "User"} ->
                {"ok", "AuthenticationError", "ConfigurationError"}]}

NextHybrid ==
    \/ Register(PipePaths, PipeVersions, PipeMethods, HybridAuths, {FALSE}, {"None"}, {{}})
    \/ urls
    \/ StartRequest(PipeMethods, PipeRequested, {"empty"}, HybridAuthResults)
    \/ Dispatch({"None"})
    \/ Authenticate
    \/ DecodeBody
    \/ CacheValidate({"None"})
    \/ Handle({Returned(JSONValue("list", {}))})
    \/ Respond
    \/ Finish({"DONE"})

SpecHybrid == Init /\ [][NextHybrid]_vars

-----------------------------------------------------------------------------
(* SpecConcurrent: two requests served by two threads of one process, which *)
(* share the registry and the objects in it                                 *)

\* the running thread is suspended between two steps of __call__ and the
\* other thread runs
Yield ==
    /\ phase = "serving"
    /\ req # waiting
    /\ req' = waiting
    /\ waiting' = req
    /\ UNCHANGED <<rest_routes, endpoints, hybrids, reg, phase, vt, rem, cr>>

ConcurrentAuths == {HybridOf(<<"Custom", "User">>, "or")}
ConcurrentAuthResults ==
    {[c \in AuthClasses \ {"Public"} |->
         IF c \in {"Custom", "User"} THEN f[c] ELSE "AuthenticationError"] :
       f \in [{"Custom", "User"} -> {"ok", "AuthenticationError"}]}

NextConcurrent ==
    \/ Register(PipePaths, PipeVersions, PipeMethods, ConcurrentAuths, {FALSE}, {"None"}, {{}})
    \/ urls
    \/ StartRequest(PipeMethods, PipeRequested, {"empty"}, ConcurrentAuthResults)
    \/ Dispatch({"None"})
    \/ Authenticate
    \/ DecodeBody
    \/ CacheValidate({"None"})
    \/ Handle({Returned(JSONValue("list", {}))})
    \/ Respond
    \/ Finish({"DONE"})
    \/ Yield

SpecConcurrent == Init /\ [][NextConcurrent]_vars

-----------------------------------------------------------------------------
(* Properties of the registry and of version resolution, checked under Spec *)

VersionRoutes(path) == rest_routes[path].version_routes
Matching(path, version) ==
    {i \in 1..Len(VersionRoutes(path)) : matches(VersionRoutes(path)[i].key, version)}
Resolved == req.pc \notin {"IDLE", "RESOLVING"}

\* C1: whenever some registered version of a path matches the requested
\* version, find_matching_version_route returns the bucket of a version that
\* matches and whose (major, minor) is >= that of every other matching one.
C1_HighestMatchWins ==
    /\ \A path \in DOMAIN rest_routes, version \in RequestedVersions :
          LET idx == find_matching_version_route(rest_routes[path], version)
              d == VersionRoutes(path)
          IN Matching(path, version) # {} =>
                /\ idx \in Matching(path, version)
                /\ d[idx].value.version.number = d[idx].key.number
                /\ \A j \in Matching(path, version) :
                      ~TupleLess(d[idx].key.number, d[j].key.number)
    /\ (Resolved /\ Matching(req.path, req.version) # {}) =>
          /\ req.rest_version \in Matching(req.path, req.version)
          /\ \A j \in Matching(req.path, req.version) :
                ~TupleLess(VersionRoutes(req.path)[req.rest_version].key.number,
                           VersionRoutes(req.path)[j].key.number)

C1_Witness ==
    /\ req.pc = "AUTHENTICATING"
    /\ \E j \in Matching(req.path, req.version) :
          TupleLess(VersionRoutes(req.path)[j].key.number,
                    VersionRoutes(req.path)[req.rest_version].key.number)

\* C2: a request whose version no registered version of the path matches
\* ends with the response of the route-not-found view: no bucket, no
\* handler, no other error, whatever the verb.
C2_NoMatchIsRouteNotFound ==
    (req.pc = "DONE" /\ Matching(req.path, req.version) = {}) =>
        /\ req.outcome = RouteNotFound
        /\ req.rest_version = 0
        /\ req.endpoint = 0
        /\ req.trace = <<>>

\* C3: an endpoint E that no later registration replaces is what resolving
\* E.path at E.version.number and looking up E.method returns.
C3_RoundTrip ==
    \A i \in 1..Len(endpoints) :
        LET E == endpoints[i]
            replaced == \E j \in (i + 1)..Len(endpoints) :
                            /\ endpoints[j].path = E.path
                            /\ endpoints[j].version.number = E.version.number
                            /\ endpoints[j].method = E.method
            route == rest_routes[E.path]
            idx == find_matching_version_route(route, E.version.number)
        IN ~replaced =>
              /\ idx # 0
              /\ rest_version_route(route, idx, E.method).kind = "endpoint"
              /\ rest_version_route(route, idx, E.method).ep = E.id

\* C6: a registration whose version is a float literal with more than two
\* decimals fails with InvalidRouteError and leaves the registry unchanged.
C6_ThreeDecimalsRejected ==
    [][(reg'.n # reg.n /\ reg'.version.kind \in {"bare", "RESTVersion"}
            /\ reg'.version.lit.kind = "float" /\ reg'.version.lit.a % 10 # 0)
        => (/\ reg'.error = "InvalidRouteError"
            /\ rest_routes' = rest_routes
            /\ endpoints' = endpoints
            /\ hybrids' = hybrids)]_vars

C6_Witness ==
    /\ reg.version = VersionBare(FloatLit(1234))
    /\ reg.error = "InvalidRouteError"
    /\ Len(endpoints) = 1
    /\ DOMAIN rest_routes # {}

\* C8: a verb of HTTP_METHODS without a registered endpoint in the resolved
\* bucket gets HTTP 405 and nothing else runs: no authentication, no body
\* decoding, no handler.
C8_UnregisteredMethodIs405 ==
    (/\ Resolved
     /\ req.rest_version # 0
     /\ req.method \in HTTP_METHODS
     /\ VersionRoutes(req.path)[req.rest_version].value.method_routes[req.method] = 0)
    => (/\ req.pc = "DONE"
        /\ req.outcome = Response(405)
        /\ req.endpoint = 0
        /\ req.trace = <<>>)

C8_Witness ==
    /\ req.pc = "DONE"
    /\ req.rest_version # 0
    /\ req.method = "POST"
    /\ VersionRoutes(req.path)[req.rest_version].value.method_routes["GET"] # 0
    /\ VersionRoutes(req.path)[req.rest_version].value.method_routes["POST"] = 0
    /\ req.outcome = Response(405)

\* C32: under every match policy a registered version matches a requested
\* version only if its (major, minor) is lexicographically <= the requested
\* one, and the endpoint that serves a request is never declared for a later
\* version than the requested one.
C32_NeverALaterVersion ==
    /\ \A path \in DOMAIN rest_routes, version \in RequestedVersions :
          \A i \in Matching(path, version) :
              ~TupleLess(version, VersionRoutes(path)[i].key.number)
    /\ (Resolved /\ req.rest_version # 0) =>
          ~TupleLess(req.version, VersionRoutes(req.path)[req.rest_version].key.number)
    /\ (Resolved /\ req.endpoint # 0) =>
          ~TupleLess(req.version, endpoints[req.endpoint].version.number)

C32_Witness ==
    /\ req.pc = "DONE"
    /\ req.endpoint # 0
    /\ req.version = <<2, 0>>
    /\ endpoints[req.endpoint].version.number = <<1, 0>>
    /\ endpoints[req.endpoint].version.match = "FOLLOWING_MAJOR_MINOR"
    /\ \E i \in 1..Len(VersionRoutes(req.path)) :
          /\ VersionRoutes(req.path)[i].key.match = "EQUAL"
          /\ ~matches(VersionRoutes(req.path)[i].key, req.version)

\* the route whose buckets were created in another order: the version_routes
\* dict that the same registrations leave when the first registration of
\* bucket order[i] comes i-th
Reordered(route, order) ==
    [route EXCEPT !.version_routes =
        [i \in 1..Len(route.version_routes) |-> route.version_routes[order[i]]]]

\* C33: the bucket find_matching_version_route chooses depends only on the
\* set of registered versions of the path and on the requested version: with
\* the buckets registered in any other order, every requested version
\* resolves to the same bucket (or to none in both).
C33_OrderIndependent ==
    \A path \in DOMAIN rest_routes, version \in RouteRequested :
        \A order \in Permutations(1..Len(VersionRoutes(path))) :
            LET route == rest_routes[path]
                other == Reordered(route, order)
                idx == find_matching_version_route(route, version)
                oidx == find_matching_version_route(other, version)
            IN /\ (idx = 0) <=> (oidx = 0)
               /\ idx # 0 => route.version_routes[idx] = other.version_routes[oidx]

\* the endpoints registered with the path, the version key and the method
Registered(path, key, method) ==
    {i \in 1..Len(endpoints) : /\ endpoints[i].path = path
                               /\ SameKey(endpoints[i].version, key)
                               /\ endpoints[i].method = method}

\* C20: after E1 and then E2 were registered with the same path, version
\* and method, the bucket holds for that method E2 and nothing else, its
\* other methods are what their own registrations made them, and a dispatch
\* of that method reaches E2 and never E1.
C20_LaterRegistrationReplaces ==
    /\ \A path \in DOMAIN rest_routes :
          \A b \in 1..Len(VersionRoutes(path)) :
             \A method \in HTTP_METHODS :
                LET bucket == VersionRoutes(path)[b]
                    same == Registered(path, bucket.key, method)
                IN /\ bucket.value.method_routes[method] = bucket.value.attrs[method]
                   /\ same = {} => bucket.value.attrs[method] = 0
                   /\ same # {} =>
                         /\ bucket.value.attrs[method] \in same
                         /\ \A i \in same : i <= bucket.value.attrs[method]
    /\ req.endpoint # 0 =>
          LET E == endpoints[req.endpoint]
          IN \A i \in Registered(E.path, E.version, E.method) : i <= req.endpoint

C20_Witness ==
    /\ Len(endpoints) = 2
    /\ Registered(endpoints[1].path, endpoints[1].version, endpoints[1].method) = {1, 2}
    /\ req.pc = "DONE"
    /\ req.endpoint = 2
    /\ req.outcome = Response(200)

\* C21: the version_routes of a path never hold two buckets whose versions
\* have the same (major, minor), whatever the match policies with which
\* that number was registered.
C21_OneBucketPerNumber ==
    \A path \in DOMAIN rest_routes :
        \A i, j \in 1..Len(VersionRoutes(path)) :
            i # j => VersionRoutes(path)[i].key.number # VersionRoutes(path)[j].key.number

-----------------------------------------------------------------------------
(* Properties of registration, checked under SpecRegister *)

\* the arguments of a registration call that the claim C22 names as invalid
InvalidArguments(r) ==
    \/ (r.path \in {<<>>, <<"/">>} /\ r.name # "default")
    \/ r.method \notin {"GET", "POST", "PUT", "PATCH", "DELETE"}
    \/ r.version.kind = "None"
    \/ (r.version.kind = "bare" /\ r.version.lit.kind \notin {"float", "int"})

C29_NoLeadingSeparator ==
    \A path \in DOMAIN rest_routes : path = <<>> \/ Head(path) # "/"

-----------------------------------------------------------------------------
(* Properties of remove, checked under SpecRemove *)

\* the buckets of a route whose version number is / is not number
BucketsAt(route, number) ==
    {i \in 1..Len(route.version_routes) : route.version_routes[i].key.number = number}
BucketsOff(route, number) ==
    {route.version_routes[i] : i \in {j \in 1..Len(route.version_routes) :
                                        route.version_routes[j].key.number # number}}

\* C30: remove narrows by its filters. For a registered path, and a version
\* number that has a bucket there when one is given (0.0 included, whatever
\* match policy it was registered with): every other path stays as it was;
\* remove(path) deletes the path; remove(path, version) deletes the bucket of
\* that version number and keeps every other bucket as it was;
\* remove(path, version, method) keeps every bucket and resets only that
\* method of that bucket to the 405 responder.
C30_RemoveNarrows ==
    [][rem'.n # rem.n =>
        LET path == StripLeadingSlash(rem'.path)
            version == rem'.version
            method == rem'.method
            number == RegistrationVersion(version).number
            Addressed ==
                /\ path \in DOMAIN rest_routes
                /\ version.kind # "None" => BucketsAt(rest_routes[path], number) # {}
                /\ method # "None" => version.kind # "None"
        IN Addressed =>
            /\ \A q \in DOMAIN rest_routes \ {path} :
                  q \in DOMAIN rest_routes' /\ rest_routes'[q] = rest_routes[q]
            /\ version.kind = "None" => path \notin DOMAIN rest_routes'
            /\ version.kind # "None" =>
                  /\ path \in DOMAIN rest_routes'
                  /\ BucketsOff(rest_routes'[path], number) =
                        BucketsOff(rest_routes[path], number)
                  /\ method = "None" => BucketsAt(rest_routes'[path], number) = {}
                  /\ method # "None" =>
                        \A i \in BucketsAt(rest_routes[path], number) :
                            /\ i <= Len(rest_routes'[path].version_routes)
                            /\ rest_routes'[path].version_routes[i] =
                                 [rest_routes[path].version_routes[i] EXCEPT
                                     !.value.attrs[method] = 0]
    ]_vars

-----------------------------------------------------------------------------
(* Properties of the request pipeline, checked under SpecPipeline *)

HasEvent(ev) == \E i \in 1..Len(req.trace) : req.trace[i].ev = ev

\* C9: a handler runs only after the authenticate of its endpoint succeeded
\* earlier in the same request; when authenticate fails the request ends
\* with that error and neither the body decoding, the cache validator, the
\* handler nor the response post-processing runs.
C9_AuthenticateFirst ==
    /\ \A i \in 1..Len(req.trace) :
          req.trace[i].ev = "handler" =>
              /\ req.auth_result = "ok"
              /\ \E j \in 1..(i - 1) :
                    req.trace[j] = Event("authenticate", req.trace[i].ep)
    /\ req.auth_result \notin {"none", "ok"} =>
          /\ req.pc = "DONE"
          /\ req.outcome = Raised(req.auth_result)
          /\ req.trace = <<Event("authenticate", req.endpoint)>>

C9_Witness ==
    /\ req.pc = "DONE"
    /\ req.auth_result = "AuthenticationError"
    /\ endpoints[req.endpoint].auth.cls = "Consumer"
    /\ req.method = "POST" /\ req.body = "json"
    /\ req.outcome = Raised("AuthenticationError")
    /\ req.outcome.status = 401

\* C10: a non-GET request whose non-empty body is not valid JSON fails with
\* EncodingError, status 400, and its handler is never invoked.
C10_MalformedBodyIsEncodingError ==
    (/\ req.method # "GET"
     /\ req.body \in {"malformed_json", "invalid_utf8"}
     /\ HasEvent("decode"))
    => (/\ req.pc = "DONE"
        /\ req.outcome = Raised("EncodingError")
        /\ req.outcome.status = 400
        /\ ~HasEvent("handler"))

\* C11 as stated: every GET request with a non-empty body that reaches a
\* registered endpoint ends with RequestError, and its handler is not invoked.
C11_GetWithBodyIsRequestError ==
    (/\ req.pc = "DONE"
     /\ req.endpoint # 0
     /\ req.method = "GET"
     /\ req.body # "empty")
    => (/\ req.outcome = Raised("RequestError")
        /\ ~HasEvent("handler"))

\* C11: every GET request with a non-empty body whose authentication
\* succeeded ends with RequestError, status 400, whatever the handler would
\* return, and neither the cache validator nor the handler is invoked; when
\* its authentication fails it ends with that error and no handler either.
C11_AuthenticatedGetWithBodyIsRequestError ==
    (/\ req.endpoint # 0
     /\ req.method = "GET"
     /\ req.body # "empty")
    => /\ ~HasEvent("handler")
       /\ ~HasEvent("cache")
       /\ HasEvent("decode") =>
             /\ req.pc = "DONE"
             /\ req.outcome = Raised("RequestError")
             /\ req.outcome.status = 400
       /\ (req.pc = "DONE" /\ req.auth_result = "ok") =>
             req.outcome = Raised("RequestError")
       /\ (req.pc = "DONE" /\ req.auth_result # "ok") =>
             req.outcome = Raised(req.auth_result)

C11_Witness ==
    /\ req.pc = "DONE"
    /\ req.endpoint # 0
    /\ req.method = "GET"
    /\ req.body = "json"
    /\ endpoints[req.endpoint].auth.cls = "Consumer"
    /\ req.auth_result = "ok"
    /\ req.trace = <<Event("authenticate", req.endpoint), Event("decode", req.endpoint)>>
    /\ req.outcome = Raised("RequestError")

\* C12: when the cache validator of a GET endpoint reports the resource
\* unchanged for a GET request without body, the request ends with a
\* not-modified response and the handler of the endpoint is not invoked.
C12_UnchangedShortCircuits ==
    (/\ req.endpoint # 0
     /\ req.method = "GET"
     /\ req.body = "empty"
     /\ HasEvent("cache")
     /\ req.cache_response = "NotModified")
    => (/\ ~HasEvent("handler")
        /\ req.pc = "DONE" => req.outcome = Response(304))

\* C13: the body of the response is {data: v} when the handler result v is
\* not a dict with a top-level 'data' key and is v itself when it is; every
\* body so built has a top-level 'data' key, and wrapping it again changes
\* nothing.
C13_DataEnvelope ==
    HasEvent("postprocess") =>
        LET v == req.route_result
            body == req.body_out
        IN /\ (v.kind = "dict" /\ "data" \in v.keys) => body = v
           /\ ~(v.kind = "dict" /\ "data" \in v.keys) =>
                 body = [kind |-> v.kind, keys |-> v.keys, wraps |-> 1]
           /\ body.wraps > 0 \/ (body.kind = "dict" /\ "data" \in body.keys)
           /\ wrap_data(body) = body
           /\ wrap_data(wrap_data(v)) = wrap_data(v)

C13_Witness ==
    /\ req.pc = "DONE"
    /\ req.outcome = Response(200)
    /\ req.route_result = JSONValue("dict", {"data", "error"})
    /\ req.body_out = req.route_result

-----------------------------------------------------------------------------
(* Properties of the cache function, checked under SpecCache *)

\* C23: once the routes are registered and requests are served, no step
\* changes the registry, a route, a bucket or an endpoint, the cache
\* function of an endpoint included.
C23_ServingChangesNoRegistration ==
    [][phase = "serving" =>
          (rest_routes' = rest_routes /\ endpoints' = endpoints)]_vars

\* C31: a cache validator of an endpoint is invoked for a request only after
\* the authenticate of that endpoint succeeded earlier in the same request,
\* whatever the HTTP verb, HEAD included.
C31_CacheValidatorAfterAuthenticate ==
    \A i \in 1..Len(req.trace) :
        req.trace[i].ev = "cache" =>
            /\ req.auth_result = "ok"
            /\ \E j \in 1..(i - 1) :
                  req.trace[j] = Event("authenticate", req.trace[i].ep)

-----------------------------------------------------------------------------
(* Properties of the middleware, checked under SpecMiddleware *)

Reported(exc) ==
    /\ req.endpoint # 0
    /\ req.pc \in {"RESPONSE", "SENT"}
    /\ req.outcome.kind = "raised"
    /\ req.outcome.exc = exc

C26_DjangoExceptionsTranslated ==
    /\ (Reported("ObjectDoesNotExist") \/ Reported("FieldDoesNotExist")) =>
          (req.response.kind = "json_error" /\ req.response.status = 404)
    /\ Reported("ValidationError") =>
          (req.response.kind = "json_error" /\ req.response.status = 400)
    /\ Reported("SuspiciousOperation") =>
          (req.response.kind = "json_error" /\ req.response.status = 403)

\* the policy that authenticated the request set an allowed origin while it
\* post-processed the response: the request passed Consumer.authenticate
\* with an Origin rule and its response was built
OriginSetByPolicy ==
    /\ req.endpoint # 0
    /\ HasEvent("postprocess")
    /\ req.auth_result = "ok"
    /\ req.tried[Len(req.tried)] = "Consumer"
    /\ req.authres["Consumer"] = "ok_origin"

\* C27: every response that leaves RESTRoutesAccessControlMiddleware has
\* Access-Control-Allow-Headers 'Content-Type, Authorization',
\* Access-Control-Allow-Credentials 'true', and as
\* Access-Control-Allow-Origin the origin that the response() of the policy
\* that authenticated the request set, or '*' when it set none.
C27_AccessControlHeaders ==
    req.pc = "SENT" =>
        /\ req.response.allow_headers = "Content-Type, Authorization"
        /\ req.response.allow_credentials = "true"
        /\ req.response.acao = IF OriginSetByPolicy THEN "Origin" ELSE "*"

C27_Witness ==
    /\ req.pc = "SENT"
    /\ OriginSetByPolicy
    /\ endpoints[req.endpoint].auth.cls = "HybridAuth"
    /\ req.response.acao = "Origin"
    /\ req.response.status = 200

\* C28: a request with an expired bearer token for an endpoint protected by
\* a JWT policy, or by a HybridAuth of JWT policies, ends with
\* AuthenticationError, status 401, code 'session_expired'.
C28_ExpiredTokenIsSessionExpired ==
    (/\ req.endpoint # 0
     /\ req.auth_result # "none"
     /\ endpoints[req.endpoint].auth.cls \in JWTClasses \cup {"HybridAuth"}
     /\ \A c \in JWTClasses : req.authres[c] = "session_expired")
    => (/\ req.outcome = Raised("AuthenticationError")
        /\ req.outcome.status = 401
        /\ req.error_code = "session_expired")

-----------------------------------------------------------------------------
(* Properties of Consumer.check_rules, checked under SpecRules *)

\* C37: with the rules of a consumer active and IP allow rules defined (and
\* no Origin rule in the way), check_rules accepts the request when its IP
\* lies in at least one allowed network and in no denied network, and raises
\* AuthenticationError otherwise.
C37_AllowedByOneNetwork ==
    (/\ cr.pc \in {"checked", "authenticated", "raised"}
     /\ cr.rules_active
     /\ cr.allowed_ips # {}
     /\ cr.origins = {})
    => IF /\ \E allowed_ip \in cr.allowed_ips : cr.request_ip \in allowed_ip
          /\ \A denied_ip \in cr.denied_ips : cr.request_ip \notin denied_ip
       THEN cr.result = "ok"
       ELSE cr.result = "AuthenticationError"

-----------------------------------------------------------------------------
(* Properties of RESTApp, checked under SpecApp *)

\* C36: a route declared through a RESTApp with an explicit version is
\* registered at that version, 0 and 0.0 included; the version of the app is
\* used only when the route gives none.
C36_ExplicitVersionWins ==
    (reg.app /\ reg.n > 0) =>
        LET version == RegistrationVersion(IF reg.version.kind # "None"
                                           THEN reg.version ELSE reg.app_version)
        IN IF version.err # "none"
           THEN reg.error # "none"
           ELSE /\ reg.error = "none"
                /\ endpoints[reg.id].version = version

-----------------------------------------------------------------------------
(* Properties of handled_exceptions, checked under SpecHandled *)

\* C35: registering an endpoint with handled_exceptions never changes the
\* handled_exceptions of another endpoint: no step changes the set of an
\* existing endpoint, and the set of every endpoint is Error plus only the
\* kinds its own registration declared, or plus the kinds of its
\* authentication policy when it declared none.
C35_HandledExceptionsOfItsOwn ==
    [][/\ \A i \in 1..Len(endpoints) :
            /\ i <= Len(endpoints')
            /\ endpoints'[i].handled_exceptions = endpoints[i].handled_exceptions
       /\ \A i \in 1..Len(endpoints') :
            endpoints'[i].handled_exceptions =
                {"Error"} \cup
                    (IF endpoints'[i].rest_dec_handled_exceptions # {}
                     THEN endpoints'[i].rest_dec_handled_exceptions
                     ELSE handled_exceptions_of(endpoints'[i].auth.cls))
    ]_vars

C35_Witness ==
    /\ Len(endpoints) = 2
    /\ endpoints[1].auth.cls = "Custom"
    /\ endpoints[1].rest_dec_handled_exceptions = {}
    /\ endpoints[1].handled_exceptions = {"Error", "CustomError"}
    /\ endpoints[2].auth.cls = "Custom"
    /\ endpoints[2].rest_dec_handled_exceptions = {"KeyError"}
    /\ endpoints[2].handled_exceptions = {"Error", "KeyError"}
    /\ req.endpoint = 1
    /\ req.outcome = Raised("KeyError")
    /\ req.response.status = 500

-----------------------------------------------------------------------------
(* Properties of HybridAuth, checked under SpecHybrid *)

\* the request r was authenticated by a HybridAuth with the given operator
ByHybrid(r, operator) ==
    /\ r.endpoint # 0
    /\ r.auth_result # "none"
    /\ endpoints[r.endpoint].auth.cls = "HybridAuth"
    /\ hybrids[endpoints[r.endpoint].auth.ref].operator = operator

\* C14: authenticate of a HybridAuth with operator "or" calls its
\* sub-policies in the declared order, goes on to the next one only after an
\* AuthenticationError, calls none after the first that succeeds, and raises
\* AuthenticationError exactly when every sub-policy raised it.
C14_OrInOrderUntilFirstSuccess ==
    ByHybrid(req, "or") =>
        LET auth_methods == hybrids[endpoints[req.endpoint].auth.ref].auth_methods
            n == Len(req.tried)
        IN /\ n \in 1..Len(auth_methods)
           /\ \A i \in 1..n : req.tried[i] = auth_methods[i]
           /\ \A i \in 1..(n - 1) : req.authres[req.tried[i]] = "AuthenticationError"
           /\ req.auth_result = req.authres[req.tried[n]]
           /\ n < Len(auth_methods) => req.auth_result # "AuthenticationError"
           /\ req.auth_result = "AuthenticationError" <=>
                 \A i \in 1..Len(auth_methods) :
                     req.authres[auth_methods[i]] = "AuthenticationError"

C14_Witness ==
    /\ ByHybrid(req, "or")
    /\ hybrids[endpoints[req.endpoint].auth.ref].auth_methods = <<"User", "Custom">>
    /\ req.authres["User"] = "ok" /\ req.authres["Custom"] = "ok"
    /\ req.auth_result = "ok"
    /\ req.tried = <<"User">>

\* C15: when a HybridAuth [A, B] with operator "or" authenticates a request
\* for which A raises AuthenticationError and B succeeds, the response of
\* that request passes through B.response and not A.response, whatever the
\* requests served before it left in the HybridAuth.
C15_ResponseBySucceedingPolicy ==
    (ByHybrid(req, "or") /\ HasEvent("postprocess")) =>
        LET auth_methods == hybrids[endpoints[req.endpoint].auth.ref].auth_methods
        IN /\ req.postprocessed_by = req.tried[Len(req.tried)]
           /\ (/\ req.authres[auth_methods[1]] = "AuthenticationError"
               /\ req.authres[auth_methods[2]] = "ok")
              => (/\ req.postprocessed_by = auth_methods[2]
                  /\ req.postprocessed_by # auth_methods[1])

C15_Witness ==
    /\ ByHybrid(req, "or")
    /\ req.pc = "DONE"
    /\ hybrids[endpoints[req.endpoint].auth.ref].auth_methods = <<"Custom", "User">>
    /\ req.auth_used_before = "Custom"
    /\ req.tried = <<"Custom", "User">>
    /\ req.postprocessed_by = "User"

\* C16: of two requests in flight at the same HybridAuth-protected endpoint,
\* each response passes through the response() of the sub-policy that
\* authenticated that same request, whatever the order in which the two
\* threads authenticate and build their responses.
C16_ResponseByOwnPolicy ==
    \A r \in {req, waiting} :
        (/\ ByHybrid(r, "or")
         /\ \E i \in 1..Len(r.trace) : r.trace[i].ev = "postprocess")
        => r.postprocessed_by = r.tried[Len(r.tried)]

\* C17: authenticate of a HybridAuth with operator "and" never succeeds: it
\* raises NotImplementedError without calling a sub-policy, whatever the
\* credentials of the request, and the request reaches no handler.
C17_AndIsNotImplemented ==
    ByHybrid(req, "and") =>
        /\ req.auth_result = "NotImplementedError"
        /\ req.tried = <<>>
        /\ hybrids[endpoints[req.endpoint].auth.ref].auth_used = "None"
        /\ req.pc = "DONE"
        /\ req.outcome = Raised("NotImplementedError")
        /\ req.trace = <<Event("authenticate", req.endpoint)>>

C17_Witness ==
    /\ ByHybrid(req, "and")
    /\ req.authres["Custom"] = "ok" /\ req.authres["User"] = "ok"
    /\ req.pc = "DONE"
    /\ req.outcome = Raised("NotImplementedError")

\* C34: when a sub-policy of a HybridAuth with operator "or" raises an error
\* other than AuthenticationError (the sub-policies before it having raised
\* AuthenticationError), authenticate ends with that error at once: no later
\* sub-policy is called and auth_used is what it was before the request.
C34_OtherErrorPropagates ==
    ByHybrid(req, "or") =>
        LET h == hybrids[endpoints[req.endpoint].auth.ref]
        IN \A i \in 1..Len(h.auth_methods) :
              (/\ req.authres[h.auth_methods[i]] \notin {"ok", "AuthenticationError"}
               /\ \A j \in 1..(i - 1) :
                     req.authres[h.auth_methods[j]] = "AuthenticationError")
              => (/\ req.auth_result = req.authres[h.auth_methods[i]]
                  /\ req.tried = SubSeq(h.auth_methods, 1, i)
                  /\ h.auth_used = req.auth_used_before
                  /\ req.pc = "DONE"
                  /\ req.outcome = Raised(req.authres[h.auth_methods[i]]))

C34_Witness ==
    /\ ByHybrid(req, "or")
    /\ hybrids[endpoints[req.endpoint].auth.ref].auth_methods = <<"Custom", "User">>
    /\ req.authres["Custom"] = "ConfigurationError" /\ req.authres["User"] = "ok"
    /\ req.auth_result = "ConfigurationError"
    /\ req.tried = <<"Custom">>
    /\ req.auth_used_before = "User"
    /\ hybrids[endpoints[req.endpoint].auth.ref].auth_used = "User"

\* C18: once a HybridAuth has authenticated a request, its
\* handled_exceptions is the handled_exceptions of the sub-policy that
\* succeeded for that request, and it is empty when no sub-policy succeeded
\* for that request, even if one succeeded for an earlier request.
C18_HandledExceptionsOfThisRequest ==
    ByHybrid(req, "or") =>
        HybridAuth_handled_exceptions(hybrids[endpoints[req.endpoint].auth.ref]) =
            IF req.auth_result = "ok"
            THEN handled_exceptions_of(req.tried[Len(req.tried)])
            ELSE {}

\* C19: no two endpoints hold the same policy object in self.auth, also when
\* one HybridAuth value was passed to several registrations; the policy
\* object of an endpoint is bound to that endpoint.
C19_NoSharedPolicyInstance ==
    \A i, j \in 1..Len(endpoints) :
        (i # j /\ endpoints[i].auth.cls = "HybridAuth"
               /\ endpoints[j].auth.cls = "HybridAuth")
        => /\ endpoints[i].auth.ref # endpoints[j].auth.ref
           /\ hybrids[endpoints[i].auth.ref].rest_route = i

-----------------------------------------------------------------------------
(* Properties of RESTVersion, checked under SpecVersion *)

\* C4: a FOLLOWING_MINOR version (major, minor) matches the requested version
\* (rM, rm) exactly when rM = major and rm >= minor; a version at (1,5)
\* matches (1,5) and (1,9) and rejects (1,4) and (2,0).
C4_FollowingMinor ==
    (vt.pc = "matched" /\ vt.match = "FOLLOWING_MINOR") =>
        /\ vt.result <=> (vt.other[1] = vt.version.major /\ vt.other[2] >= vt.version.minor)
        /\ (vt.version.number = <<1, 5>> /\ vt.other \in {<<1, 5>>, <<1, 9>>}) => vt.result
        /\ (vt.version.number = <<1, 5>> /\ vt.other \in {<<1, 4>>, <<2, 0>>}) => ~vt.result

C4_Witness ==
    /\ vt.pc = "matched" /\ vt.match = "FOLLOWING_MINOR"
    /\ vt.number = FloatLit(1500) /\ vt.version.number = <<1, 5>>
    /\ vt.other = <<1, 9>> /\ vt.result

\* C5: a FOLLOWING_MAJOR_MINOR version (major, minor) matches the requested
\* version (rM, rm) exactly when rM > major, or rM = major and rm >= minor; a
\* version at (0,0) matches every requested version, (1,0) and (2,3) included.
C5_FollowingMajorMinor ==
    (vt.pc = "matched" /\ vt.match = "FOLLOWING_MAJOR_MINOR") =>
        /\ vt.result <=> \/ vt.other[1] > vt.version.major
                         \/ (vt.other[1] = vt.version.major /\ vt.other[2] >= vt.version.minor)
        /\ vt.version.number = <<0, 0>> => vt.result

C5_Witness ==
    /\ vt.pc = "matched" /\ vt.match = "FOLLOWING_MAJOR_MINOR"
    /\ vt.number = FloatLit(0) /\ vt.version.number = <<0, 0>>
    /\ vt.other = <<2, 3>> /\ vt.result

\* C7: every RESTVersion that construction accepts has its minor in 0..99,
\* whether built from a float literal or from a (major, minor) tuple.
C7_MinorInRange ==
    vt.pc \in {"constructed", "matched"} => vt.version.minor \in 0..99

====
